---- MODULE Spec2Model ----
(***************************************************************************)
(* Amana Marketing dashboard: the four analytics pages (DemographicView,   *)
(* DeviceView, WeeklyView, RegionView) and the aggregations each one       *)
(* derives from the fetched MarketingData snapshot.                        *)
(*                                                                         *)
(* One page component is mounted per behaviour (variable view).  A page    *)
(* holds the three useState cells (marketingData, error, loading), starts  *)
(* one fetch on mount, and recomputes its useMemo aggregates on the render *)
(* that follows a change of the marketingData reference.                   *)
(*                                                                         *)
(* Numbers.  Raw counts and money amounts are integers.  Every value the   *)
(* code obtains by a division is an exact fraction <<n, d>> in lowest      *)
(* terms with d > 0; a division by zero gives what JavaScript gives:       *)
(* NaN = <<0, 0>>, +Infinity = <<1, 0>>, -Infinity = <<-1, 0>>.  Rounding  *)
(* of IEEE doubles is not modelled.                                        *)
(*                                                                         *)
(* The two chart primitives LineChart and BubbleMap are components of      *)
(* their own: each has its own specification (LineChartSpec,               *)
(* BubbleMapSpec) in which the component receives props and renders.       *)
(*                                                                         *)
(* Objects.  Breakdown records are objects on a heap (a sequence; the      *)
(* address is the index) so that a write through an accumulator that       *)
(* aliases an input record is visible as a change of the input.            *)
(***************************************************************************)
EXTENDS Integers, Sequences, FiniteSets, TLC

VARIABLES
  view,               \* which page component is mounted
  marketingData,      \* useState<MarketingData | null>
  error,              \* useState<string | null>
  loading,            \* useState(true)
  fetchState,         \* the promise of fetchMarketingData(): pending / settled
  heap,               \* the breakdown record objects
  fetched,            \* ghost: the snapshot and heap exactly as fetched, or what
                      \* the fetch was rejected with
  memoDep,            \* the marketingData reference the useMemo results were computed for
  threw,              \* a render threw (an exception escaped a useMemo callback)
  demographicData,    \* DemographicView: useMemo result
  deviceData,         \* DeviceView: useMemo result
  deviceRender,       \* DeviceView: mobileROAS / desktopROAS of the last full render
  weeklyData,         \* WeeklyView: useMemo result (addresses, sorted)
  weeklySummary,      \* WeeklyView: summaryMetrics
  weeklyRowRoas,      \* WeeklyView: the table's ROAS cell of every row, last full render
  regionalData,       \* RegionView: useMemo result (addresses, sorted)
  regionalSummary,    \* RegionView: summaryMetrics
  fetchCalls,         \* how many times fetchMarketingData() was called
  screen,             \* what the last render of the page returned
  memoRuns,           \* how many times the page's useMemo callbacks have run
  renderedRef,        \* ghost: the marketingData reference the last render saw
  lineProps,          \* LineChart: the props of the mounted chart
  lineChart,          \* LineChart: what its last render computed
  bubbleProps,        \* BubbleMap: the data prop (a reference and the array)
  bubbleMemo,         \* BubbleMap: the useMemo cell of enrichedData
  bubbleView          \* BubbleMap: what its last render drew and listed

pageVars == <<view, marketingData, error, loading, fetchState, heap, fetched, memoDep,
              threw, demographicData, deviceData, deviceRender, weeklyData,
              weeklySummary, weeklyRowRoas, regionalData, regionalSummary,
              fetchCalls, screen, memoRuns, renderedRef>>
lineVars == <<lineProps, lineChart>>
bubbleVars == <<bubbleProps, bubbleMemo, bubbleView>>
vars == <<pageVars, lineVars, bubbleVars>>

(***************************************************************************)
(* Bounds of the model.                                                    *)
(***************************************************************************)
MaxCampaigns == 2     \* campaigns in a snapshot
MaxRecords == 3       \* breakdown records in a snapshot, over all campaigns

(***************************************************************************)
(* JavaScript numbers obtained by division.                                *)
(***************************************************************************)
NaN == <<0, 0>>
PosInf == <<1, 0>>
NegInf == <<-1, 0>>
Zero == <<0, 1>>

Abs(x) == IF x < 0 THEN -x ELSE x

RECURSIVE GCD(_, _)
GCD(a, b) == IF b = 0 THEN a ELSE GCD(b, a % b)

\* the fraction n/d, d # 0, in lowest terms with a positive denominator
Rat(n, d) ==
  LET g == GCD(Abs(n), Abs(d))
      s == IF d < 0 THEN -1 ELSE 1
  IN  <<(s * n) \div g, (s * d) \div g>>

Num(n) == <<n, 1>>
IsFinite(x) == x[2] # 0

\* x / y
JsDiv(x, y) ==
  IF ~IsFinite(x) \/ ~IsFinite(y) THEN NaN
  ELSE IF y[1] = 0
    THEN (IF x[1] = 0 THEN NaN ELSE IF x[1] > 0 THEN PosInf ELSE NegInf)
    ELSE Rat(x[1] * y[2], x[2] * y[1])

\* x * y
JsMul(x, y) ==
  IF ~IsFinite(x) \/ ~IsFinite(y) THEN NaN
  ELSE Rat(x[1] * y[1], x[2] * y[2])

\* x + y
JsAdd(x, y) ==
  IF ~IsFinite(x) \/ ~IsFinite(y) THEN NaN
  ELSE Rat(x[1] * y[2] + y[1] * x[2], x[2] * y[2])

\* !x for a number: 0 and NaN are falsy
JsFalsy(x) == x = NaN \/ (IsFinite(x) /\ x[1] = 0)

\* x - y
JsSub(x, y) == JsAdd(x, JsMul(Num(-1), y))

\* x < y (false when an operand is NaN)
JsLess(x, y) ==
  IF x = NaN \/ y = NaN \/ x = y THEN FALSE
  ELSE IF x = NegInf \/ y = PosInf THEN TRUE
  ELSE IF x = PosInf \/ y = NegInf THEN FALSE
  ELSE x[1] * y[2] < y[1] * x[2]

\* Math.max(x, y)
MathMax(x, y) == IF x = NaN \/ y = NaN THEN NaN ELSE IF JsLess(x, y) THEN y ELSE x

\* Math.max(...values) and Math.min(...values) of a non-empty array of integers
ArrayMax(values) == CHOOSE v \in {values[i] : i \in 1..Len(values)} :
                      \A i \in 1..Len(values) : values[i] <= v
ArrayMin(values) == CHOOSE v \in {values[i] : i \in 1..Len(values)} :
                      \A i \in 1..Len(values) : v <= values[i]

(***************************************************************************)
(* Generic sequence helpers.                                               *)
(***************************************************************************)
RECURSIVE SumSeq(_)
SumSeq(s) == IF s = <<>> THEN 0 ELSE Head(s) + SumSeq(Tail(s))

RECURSIVE SelectIdx(_, _, _)
\* the indices i in lo..Len(owner) with owner[i] = c, ascending
SelectIdx(owner, c, lo) ==
  IF lo > Len(owner) THEN <<>>
  ELSE IF owner[lo] = c THEN <<lo>> \o SelectIdx(owner, c, lo + 1)
  ELSE SelectIdx(owner, c, lo + 1)

(***************************************************************************)
(* The fetched snapshot.  A breakdown of a campaign is either absent       *)
(* (present = FALSE) or an array of record addresses.                      *)
(***************************************************************************)
Views == {"demographic", "device", "weekly", "region"}

Missing == [present |-> FALSE, items |-> <<>>]
Breakdown(items) == [present |-> TRUE, items |-> items]

NullData == [ref |-> 0, campaigns |-> <<>>]
NoError == [set |-> FALSE, text |-> ""]
NothingFetched == [data |-> NullData, heap |-> <<>>, rejection |-> <<>>]

CampaignNames == <<"Summer Sale", "Winter Sale", "Eid Offers">>

\* WeeklyPerformance records the fetch may deliver
WeeklyRecords ==
  { [week_start |-> "2024-01-01", week_end |-> "2024-01-07", impressions |-> 100,
     clicks |-> 10, conversions |-> 1, spend |-> 50, revenue |-> 100],
    [week_start |-> "2024-01-01", week_end |-> "2024-01-08", impressions |-> 200,
     clicks |-> 20, conversions |-> 2, spend |-> 0, revenue |-> 30],
    [week_start |-> "2024-01-08", week_end |-> "2024-01-14", impressions |-> 50,
     clicks |-> 5, conversions |-> 0, spend |-> 0, revenue |-> 0],
    [week_start |-> "2023-12-25", week_end |-> "2023-12-31", impressions |-> 10,
     clicks |-> 1, conversions |-> 1, spend |-> 20, revenue |-> 10],
    [week_start |-> "2024-01-01T00:00:00.000Z", week_end |-> "2024-01-07", impressions |-> 40,
     clicks |-> 4, conversions |-> 2, spend |-> 10, revenue |-> 70] }

\* (spend, revenue) totals of a campaign
CampaignTotals(v) ==
  IF v = "demographic"
    THEN { [spend |-> 100, revenue |-> 200], [spend |-> 0, revenue |-> 80] }
    ELSE { [spend |-> 100, revenue |-> 200] }

\* RegionalPerformance records the fetch may deliver; the last one carries rates
\* that do not agree with its own counts
RegionalRecords ==
  { [region |-> "Dubai", country |-> "UAE", impressions |-> 1000, clicks |-> 100,
     conversions |-> 10, spend |-> 100, revenue |-> 200, ctr |-> Num(10),
     conversion_rate |-> Num(10), cpc |-> Num(1), cpa |-> Num(10), roas |-> Num(2)],
    [region |-> "Dubai", country |-> "United Arab Emirates", impressions |-> 500,
     clicks |-> 20, conversions |-> 5, spend |-> 50, revenue |-> 50, ctr |-> Num(4),
     conversion_rate |-> Num(25), cpc |-> <<5, 2>>, cpa |-> Num(10), roas |-> Num(1)],
    [region |-> "Abu Dhabi", country |-> "UAE", impressions |-> 0, clicks |-> 0,
     conversions |-> 0, spend |-> 0, revenue |-> 0, ctr |-> Zero,
     conversion_rate |-> Zero, cpc |-> Zero, cpa |-> Zero, roas |-> Zero],
    [region |-> "Abu Dhabi", country |-> "UAE", impressions |-> 300, clicks |-> 30,
     conversions |-> 0, spend |-> 60, revenue |-> 300, ctr |-> Num(10),
     conversion_rate |-> Zero, cpc |-> Num(2), cpa |-> Zero, roas |-> Num(5)],
    [region |-> "Sharjah", country |-> "UAE", impressions |-> 10, clicks |-> 5,
     conversions |-> 1, spend |-> 20, revenue |-> 250, ctr |-> Num(1),
     conversion_rate |-> Num(2), cpc |-> Num(3), cpa |-> Num(4), roas |-> Num(9)] }

\* DevicePerformance records the fetch may deliver; the Desktop one carries rates
\* that do not agree with its own counts
DeviceRecords ==
  { [device |-> "Mobile", impressions |-> 100, clicks |-> 10, conversions |-> 1,
     spend |-> 10, revenue |-> 20, ctr |-> Num(10), conversion_rate |-> Num(10)],
    [device |-> "Mobile", impressions |-> 300, clicks |-> 60, conversions |-> 3,
     spend |-> 0, revenue |-> 0, ctr |-> Num(20), conversion_rate |-> Num(5)],
    [device |-> "Mobile", impressions |-> 200, clicks |-> 20, conversions |-> 0,
     spend |-> 40, revenue |-> 10, ctr |-> Num(10), conversion_rate |-> Zero],
    [device |-> "Desktop", impressions |-> 100, clicks |-> 0, conversions |-> 0,
     spend |-> 50, revenue |-> 100, ctr |-> Num(3), conversion_rate |-> Num(7)],
    [device |-> "Tablet", impressions |-> 70, clicks |-> 7, conversions |-> 1,
     spend |-> 5, revenue |-> 15, ctr |-> Num(10), conversion_rate |-> <<100, 7>>] }

\* DemographicBreakdown slices the fetch may deliver
DemographicRecords ==
  { [gender |-> "Male", age_group |-> "18-24", percentage_of_audience |-> 50,
     performance |-> [impressions |-> 100, clicks |-> 10, conversions |-> 1,
                      ctr |-> Num(10), conversion_rate |-> Num(10)]],
    [gender |-> "Female", age_group |-> "18-24", percentage_of_audience |-> 50,
     performance |-> [impressions |-> 200, clicks |-> 20, conversions |-> 4,
                      ctr |-> Num(10), conversion_rate |-> Num(20)]],
    [gender |-> "Male", age_group |-> "25-34", percentage_of_audience |-> 100,
     performance |-> [impressions |-> 50, clicks |-> 5, conversions |-> 0,
                      ctr |-> Num(10), conversion_rate |-> Zero]],
    [gender |-> "Other", age_group |-> "18-24", percentage_of_audience |-> 25,
     performance |-> [impressions |-> 70, clicks |-> 7, conversions |-> 1,
                      ctr |-> Num(10), conversion_rate |-> <<100, 7>>]] }

BreakdownRecords(v) ==
  CASE v = "weekly" -> WeeklyRecords
    [] v = "region" -> RegionalRecords
    [] v = "device" -> DeviceRecords
    [] v = "demographic" -> DemographicRecords

\* campaign c of a snapshot: only the breakdown the mounted page reads is populated
MakeCampaign(v, c, totals, bd) ==
  [name |-> CampaignNames[((c - 1) % Len(CampaignNames)) + 1],
   spend |-> totals.spend,
   revenue |-> totals.revenue,
   demographic_breakdown |-> IF v = "demographic" THEN bd ELSE Missing,
   device_performance |-> IF v = "device" THEN bd ELSE Missing,
   weekly_performance |-> IF v = "weekly" THEN bd ELSE Missing,
   regional_performance |-> IF v = "region" THEN bd ELSE Missing]

\* records 1..L of the heap dealt to n campaigns in order (owner is non-decreasing);
\* the campaigns that own no record have no array if omit, an empty array otherwise
MakeCampaigns(v, n, owner, omit, totals) ==
  [c \in 1..n |->
     MakeCampaign(v, c, totals[c],
       IF omit /\ SelectIdx(owner, c, 1) = <<>>
         THEN Missing
         ELSE Breakdown(SelectIdx(owner, c, 1)))]

(***************************************************************************)
(* WeeklyView.weeklyData                                                   *)
(***************************************************************************)
\* new Date(s).getTime(), in seconds, for the ISO strings of WeeklyRecords
DateGetTime(s) ==
  CASE s = "2023-12-25" -> 1703462400
    [] s = "2023-12-31" -> 1703980800
    [] s = "2024-01-01" -> 1704067200
    [] s = "2024-01-01T00:00:00.000Z" -> 1704067200
    [] s = "2024-01-07" -> 1704585600
    [] s = "2024-01-08" -> 1704672000
    [] s = "2024-01-14" -> 1705190400

\* a Map<string, T>: the entries <<key, address>> in insertion order
MapHas(map, key) == \E i \in 1..Len(map) : map[i][1] = key
MapGet(map, key) == map[CHOOSE i \in 1..Len(map) : map[i][1] = key][2]
MapValues(map) == [i \in 1..Len(map) |-> map[i][2]]

\* faulty variant of SpreadCopy: the accumulator is the input record itself
SpreadCopyAlias(h, addr) == [heap |-> h, addr |-> addr]

\* { ...obj }: a new object with the same own properties
SpreadCopy(h, addr) == [heap |-> Append(h, h[addr]), addr |-> Len(h) + 1]

\* faulty variant of WeeklyRecordStep: a later record of a week replaces the entry
WeeklyRecordStepReplace(st, addr) ==
  LET week == st.heap[addr]
      key == week.week_start
  IN  IF ~MapHas(st.map, key)
        THEN [st EXCEPT !.heap = Append(st.heap, week),
                        !.map = Append(st.map, <<key, Len(st.heap) + 1>>)]
        ELSE [st EXCEPT !.heap[MapGet(st.map, key)] = week]

\* faulty variant of WeeklyRecordStep: a later record of a week is dropped
WeeklyRecordStepKeepFirst(st, addr) ==
  LET week == st.heap[addr]
      key == week.week_start
  IN  IF ~MapHas(st.map, key)
        THEN LET c == SpreadCopy(st.heap, addr)
             IN  [st EXCEPT !.heap = c.heap, !.map = Append(st.map, <<key, c.addr>>)]
        ELSE st

\* callback of campaign.weekly_performance.forEach
WeeklyRecordStep(st, addr) ==
  LET week == st.heap[addr]
      key == week.week_start
  IN  IF ~MapHas(st.map, key)
        THEN LET c == SpreadCopy(st.heap, addr)
             IN  [st EXCEPT !.heap = c.heap, !.map = Append(st.map, <<key, c.addr>>)]
        ELSE LET existing == MapGet(st.map, key)
             IN  [st EXCEPT !.heap[existing] =
                    [@ EXCEPT !.impressions = @ + week.impressions,
                              !.clicks = @ + week.clicks,
                              !.conversions = @ + week.conversions,
                              !.spend = @ + week.spend,
                              !.revenue = @ + week.revenue]]

RECURSIVE WeeklyRecords_forEach(_, _)
WeeklyRecords_forEach(st, items) ==
  IF items = <<>> \/ st.threw THEN st
  ELSE WeeklyRecords_forEach(WeeklyRecordStep(st, Head(items)), Tail(items))

\* callback of marketingData.campaigns.forEach
WeeklyCampaignStep(st, campaign) ==
  IF ~campaign.weekly_performance.present THEN st
  ELSE WeeklyRecords_forEach(st, campaign.weekly_performance.items)

RECURSIVE WeeklyCampaigns_forEach(_, _)
WeeklyCampaigns_forEach(st, campaigns) ==
  IF campaigns = <<>> \/ st.threw THEN st
  ELSE WeeklyCampaigns_forEach(WeeklyCampaignStep(st, Head(campaigns)), Tail(campaigns))

\* faulty variant of WeeklyCompare: newest first
WeeklyCompareDescending(a, b) == DateGetTime(b.week_start) - DateGetTime(a.week_start)

\* (a, b) => new Date(a.week_start).getTime() - new Date(b.week_start).getTime()
WeeklyCompare(a, b) == DateGetTime(a.week_start) - DateGetTime(b.week_start)

RECURSIVE WeeklyInsert(_, _, _)
\* x placed after every element that does not compare greater than it
WeeklyInsert(h, sorted, x) ==
  IF sorted = <<>> THEN <<x>>
  ELSE IF WeeklyCompare(h[Head(sorted)], h[x]) > 0 THEN <<x>> \o sorted
  ELSE <<Head(sorted)>> \o WeeklyInsert(h, Tail(sorted), x)

RECURSIVE WeeklySort(_, _, _)
\* Array.prototype.sort with WeeklyCompare: stable, ascending
WeeklySort(h, sorted, rest) ==
  IF rest = <<>> THEN sorted
  ELSE WeeklySort(h, WeeklyInsert(h, sorted, Head(rest)), Tail(rest))

\* the useMemo callback: the heap after it ran, whether it threw, and the array
\* it returns
ComputeWeeklyData(data, h) ==
  IF data.ref = 0 THEN [heap |-> h, threw |-> FALSE, out |-> <<>>]
  ELSE LET st == WeeklyCampaigns_forEach([heap |-> h, map |-> <<>>, threw |-> FALSE],
                                         data.campaigns)
       IN  [heap |-> st.heap, threw |-> st.threw,
            out |-> WeeklySort(st.heap, <<>>, MapValues(st.map))]

\* the summaryMetrics useMemo of WeeklyView over the rows of weeklyData
ComputeWeeklySummary(rows) ==
  IF Len(rows) = 0
    THEN [totalRevenue |-> 0, totalSpend |-> 0, totalConversions |-> 0,
          totalClicks |-> 0, averageWeeklyRevenue |-> Zero, averageWeeklySpend |-> Zero]
    ELSE LET totalRevenue == SumSeq([i \in 1..Len(rows) |-> rows[i].revenue])
             totalSpend == SumSeq([i \in 1..Len(rows) |-> rows[i].spend])
             totalConversions == SumSeq([i \in 1..Len(rows) |-> rows[i].conversions])
             totalClicks == SumSeq([i \in 1..Len(rows) |-> rows[i].clicks])
         IN  [totalRevenue |-> totalRevenue, totalSpend |-> totalSpend,
              totalConversions |-> totalConversions, totalClicks |-> totalClicks,
              averageWeeklyRevenue |-> JsDiv(Num(totalRevenue), Num(Len(rows))),
              averageWeeklySpend |-> JsDiv(Num(totalSpend), Num(Len(rows)))]

\* the ROAS column's render callback of the weekly table
WeeklyRowRoas(row) ==
  IF row.spend > 0 THEN JsDiv(Num(row.revenue), Num(row.spend)) ELSE Zero

Deref(h, addrs) == [i \in 1..Len(addrs) |-> h[addrs[i]]]

(***************************************************************************)
(* RegionView.regionalData                                                 *)
(***************************************************************************)
\* faulty variant of RegionalMerge: the raw fields are summed, the rates are averaged
RegionalMergeAveraged(existing, region) ==
  [existing EXCEPT !.impressions = @ + region.impressions,
                   !.clicks = @ + region.clicks,
                   !.conversions = @ + region.conversions,
                   !.spend = @ + region.spend,
                   !.revenue = @ + region.revenue,
                   !.ctr = JsDiv(JsAdd(@, region.ctr), Num(2)),
                   !.conversion_rate = JsDiv(JsAdd(@, region.conversion_rate), Num(2)),
                   !.cpc = JsDiv(JsAdd(@, region.cpc), Num(2)),
                   !.cpa = JsDiv(JsAdd(@, region.cpa), Num(2)),
                   !.roas = JsDiv(JsAdd(@, region.roas), Num(2))]

\* faulty variant of RegionalMerge: the raw fields are summed, the rates are
\* those of the record merged last
RegionalMergeRecordRates(existing, region) ==
  [existing EXCEPT !.impressions = @ + region.impressions,
                   !.clicks = @ + region.clicks,
                   !.conversions = @ + region.conversions,
                   !.spend = @ + region.spend,
                   !.revenue = @ + region.revenue,
                   !.ctr = region.ctr,
                   !.conversion_rate = region.conversion_rate,
                   !.cpc = region.cpc,
                   !.cpa = region.cpa,
                   !.roas = region.roas]

\* the else branch of the forEach callback: add the raw fields of region to
\* existing, then recalculate the derived metrics of existing
RegionalMerge(existing, region) ==
  LET e == [existing EXCEPT !.impressions = @ + region.impressions,
                            !.clicks = @ + region.clicks,
                            !.conversions = @ + region.conversions,
                            !.spend = @ + region.spend,
                            !.revenue = @ + region.revenue]
  IN  [e EXCEPT
         !.ctr = IF e.impressions > 0
                   THEN JsMul(JsDiv(Num(e.clicks), Num(e.impressions)), Num(100))
                   ELSE Zero,
         !.conversion_rate = IF e.clicks > 0
                   THEN JsMul(JsDiv(Num(e.conversions), Num(e.clicks)), Num(100))
                   ELSE Zero,
         !.cpc = IF e.clicks > 0 THEN JsDiv(Num(e.spend), Num(e.clicks)) ELSE Zero,
         !.cpa = IF e.conversions > 0
                   THEN JsDiv(Num(e.spend), Num(e.conversions))
                   ELSE Zero,
         !.roas = IF e.spend > 0 THEN JsDiv(Num(e.revenue), Num(e.spend)) ELSE Zero]

\* faulty variant of RegionalRecordStep: the rates of the seed are recalculated too
RegionalRecordStepRecomputeSeed(st, addr) ==
  LET region == st.heap[addr]
      key == region.region
  IN  IF ~MapHas(st.map, key)
        THEN LET c == SpreadCopy(st.heap, addr)
                 h == [c.heap EXCEPT ![c.addr] =
                         RegionalMerge(@, [impressions |-> 0, clicks |-> 0,
                                           conversions |-> 0, spend |-> 0,
                                           revenue |-> 0])]
             IN  [st EXCEPT !.heap = h, !.map = Append(st.map, <<key, c.addr>>)]
        ELSE LET existing == MapGet(st.map, key)
             IN  [st EXCEPT !.heap[existing] = RegionalMerge(@, region)]

\* callback of campaign.regional_performance.forEach
RegionalRecordStep(st, addr) ==
  LET region == st.heap[addr]
      key == region.region
  IN  IF ~MapHas(st.map, key)
        THEN LET c == SpreadCopy(st.heap, addr)
             IN  [st EXCEPT !.heap = c.heap, !.map = Append(st.map, <<key, c.addr>>)]
        ELSE LET existing == MapGet(st.map, key)
             IN  [st EXCEPT !.heap[existing] = RegionalMerge(@, region)]

RECURSIVE RegionalRecords_forEach(_, _)
RegionalRecords_forEach(st, items) ==
  IF items = <<>> \/ st.threw THEN st
  ELSE RegionalRecords_forEach(RegionalRecordStep(st, Head(items)), Tail(items))

\* callback of marketingData.campaigns.forEach
RegionalCampaignStep(st, campaign) ==
  IF ~campaign.regional_performance.present THEN st
  ELSE RegionalRecords_forEach(st, campaign.regional_performance.items)

RECURSIVE RegionalCampaigns_forEach(_, _)
RegionalCampaigns_forEach(st, campaigns) ==
  IF campaigns = <<>> \/ st.threw THEN st
  ELSE RegionalCampaigns_forEach(RegionalCampaignStep(st, Head(campaigns)),
                                 Tail(campaigns))

\* faulty variant of RegionalCompare: lowest revenue first
RegionalCompareAscending(a, b) == a.revenue - b.revenue

\* (a, b) => b.revenue - a.revenue
RegionalCompare(a, b) == b.revenue - a.revenue

RECURSIVE RegionalInsert(_, _, _)
RegionalInsert(h, sorted, x) ==
  IF sorted = <<>> THEN <<x>>
  ELSE IF RegionalCompare(h[Head(sorted)], h[x]) > 0 THEN <<x>> \o sorted
  ELSE <<Head(sorted)>> \o RegionalInsert(h, Tail(sorted), x)

RECURSIVE RegionalSort(_, _, _)
\* Array.prototype.sort with RegionalCompare: stable
RegionalSort(h, sorted, rest) ==
  IF rest = <<>> THEN sorted
  ELSE RegionalSort(h, RegionalInsert(h, sorted, Head(rest)), Tail(rest))

\* the useMemo callback: the heap after it ran, whether it threw, and the array
\* it returns
ComputeRegionalData(data, h) ==
  IF data.ref = 0 THEN [heap |-> h, threw |-> FALSE, out |-> <<>>]
  ELSE LET st == RegionalCampaigns_forEach([heap |-> h, map |-> <<>>, threw |-> FALSE],
                                           data.campaigns)
       IN  [heap |-> st.heap, threw |-> st.threw,
            out |-> RegionalSort(st.heap, <<>>, MapValues(st.map))]

\* the summaryMetrics useMemo of RegionView over the rows of regionalData
ComputeRegionalSummary(rows) ==
  IF Len(rows) = 0
    THEN [totalRegions |-> 0, totalRevenue |-> 0, totalSpend |-> 0, topRegion |-> "N/A"]
    ELSE [totalRegions |-> Len(rows),
          totalRevenue |-> SumSeq([i \in 1..Len(rows) |-> rows[i].revenue]),
          totalSpend |-> SumSeq([i \in 1..Len(rows) |-> rows[i].spend]),
          topRegion |-> IF rows[1].region = "" THEN "N/A" ELSE rows[1].region]

(***************************************************************************)
(* DeviceView.deviceData                                                   *)
(***************************************************************************)
EmptyDevice(name) ==
  [device |-> name, impressions |-> 0, clicks |-> 0, conversions |-> 0, spend |-> 0,
   revenue |-> 0, ctr |-> Zero, conversion_rate |-> Zero, percentage_of_traffic |-> Zero]

\* the value returned while marketingData is null
DefaultDeviceData ==
  [mobileData |-> EmptyDevice("Mobile"), desktopData |-> EmptyDevice("Desktop"),
   campaignDeviceBreakdown |-> <<>>]

\* agg.x += device.x for the five raw fields
DeviceAccumulate(agg, device) ==
  [agg EXCEPT !.impressions = @ + device.impressions,
              !.clicks = @ + device.clicks,
              !.conversions = @ + device.conversions,
              !.spend = @ + device.spend,
              !.revenue = @ + device.revenue]

\* the object pushed on campaignBreakdown
DeviceBreakdownRow(campaign, device) ==
  [campaign |-> campaign.name, device |-> device.device,
   impressions |-> device.impressions, clicks |-> device.clicks,
   conversions |-> device.conversions, spend |-> device.spend,
   revenue |-> device.revenue, ctr |-> device.ctr,
   conversion_rate |-> device.conversion_rate,
   roas |-> IF device.spend > 0
              THEN JsDiv(Num(device.revenue), Num(device.spend))
              ELSE Zero]

\* faulty variant of DeviceRecordStep: the row is pushed inside the Mobile and
\* Desktop branches only
DeviceRecordStepBucketedOnly(st, campaign, addr) ==
  LET device == st.heap[addr]
  IN  IF device.device = "Mobile"
        THEN [st EXCEPT !.mobileAgg = DeviceAccumulate(@, device),
                        !.campaignBreakdown =
                           Append(@, DeviceBreakdownRow(campaign, device))]
      ELSE IF device.device = "Desktop"
        THEN [st EXCEPT !.desktopAgg = DeviceAccumulate(@, device),
                        !.campaignBreakdown =
                           Append(@, DeviceBreakdownRow(campaign, device))]
      ELSE st

\* callback of campaign.device_performance.forEach
DeviceRecordStep(st, campaign, addr) ==
  LET device == st.heap[addr]
      s1 == IF device.device = "Mobile"
              THEN [st EXCEPT !.mobileAgg = DeviceAccumulate(@, device)]
            ELSE IF device.device = "Desktop"
              THEN [st EXCEPT !.desktopAgg = DeviceAccumulate(@, device)]
            ELSE st
  IN  [s1 EXCEPT !.campaignBreakdown = Append(@, DeviceBreakdownRow(campaign, device))]

RECURSIVE DeviceRecords_forEach(_, _, _)
DeviceRecords_forEach(st, campaign, items) ==
  IF items = <<>> \/ st.threw THEN st
  ELSE DeviceRecords_forEach(DeviceRecordStep(st, campaign, Head(items)), campaign,
                             Tail(items))

\* faulty variant of DeviceCampaignStep: no early return, so forEach is called on
\* undefined and throws a TypeError
DeviceCampaignStepUnguarded(st, campaign) ==
  IF ~campaign.device_performance.present THEN [st EXCEPT !.threw = TRUE]
  ELSE DeviceRecords_forEach(st, campaign, campaign.device_performance.items)

\* callback of marketingData.campaigns.forEach
DeviceCampaignStep(st, campaign) ==
  IF ~campaign.device_performance.present THEN st
  ELSE DeviceRecords_forEach(st, campaign, campaign.device_performance.items)

RECURSIVE DeviceCampaigns_forEach(_, _)
DeviceCampaigns_forEach(st, campaigns) ==
  IF campaigns = <<>> \/ st.threw THEN st
  ELSE DeviceCampaigns_forEach(DeviceCampaignStep(st, Head(campaigns)), Tail(campaigns))

RECURSIVE MeanSum(_, _)
MeanSum(rows, fld) ==
  IF rows = <<>> THEN Zero ELSE JsAdd(Head(rows)[fld], MeanSum(Tail(rows), fld))

\* the mean of field fld over the campaignBreakdown rows of device d (0 if none)
BreakdownMean(rows, d, fld) ==
  LET sel == SelectSeq(rows, LAMBDA r : r.device = d)
  IN  IF Len(sel) = 0 THEN Zero ELSE JsDiv(MeanSum(sel, fld), Num(Len(sel)))

\* faulty variant of DeviceDerivedMetrics: the bucket rates are the means of the
\* per-campaign rates
DeviceDerivedMetricsAveraged(st) ==
  [st EXCEPT
     !.mobileAgg.ctr = BreakdownMean(st.campaignBreakdown, "Mobile", "ctr"),
     !.mobileAgg.conversion_rate =
        BreakdownMean(st.campaignBreakdown, "Mobile", "conversion_rate"),
     !.desktopAgg.ctr = BreakdownMean(st.campaignBreakdown, "Desktop", "ctr"),
     !.desktopAgg.conversion_rate =
        BreakdownMean(st.campaignBreakdown, "Desktop", "conversion_rate")]

\* "Calculate derived metrics": ctr and conversion_rate of both buckets
DeviceDerivedMetrics(st) ==
  [st EXCEPT
     !.mobileAgg.ctr =
        IF st.mobileAgg.impressions > 0
          THEN JsMul(JsDiv(Num(st.mobileAgg.clicks), Num(st.mobileAgg.impressions)),
                     Num(100))
          ELSE Zero,
     !.mobileAgg.conversion_rate =
        IF st.mobileAgg.clicks > 0
          THEN JsMul(JsDiv(Num(st.mobileAgg.conversions), Num(st.mobileAgg.clicks)),
                     Num(100))
          ELSE Zero,
     !.desktopAgg.ctr =
        IF st.desktopAgg.impressions > 0
          THEN JsMul(JsDiv(Num(st.desktopAgg.clicks), Num(st.desktopAgg.impressions)),
                     Num(100))
          ELSE Zero,
     !.desktopAgg.conversion_rate =
        IF st.desktopAgg.clicks > 0
          THEN JsMul(JsDiv(Num(st.desktopAgg.conversions), Num(st.desktopAgg.clicks)),
                     Num(100))
          ELSE Zero]

\* faulty variant of DeviceTrafficPercentage: the total is taken over the records
\* of every device
DeviceTrafficPercentageAllDevices(st) ==
  LET totalImpressions ==
        SumSeq([i \in 1..Len(st.campaignBreakdown) |->
                  st.campaignBreakdown[i].impressions])
  IN  [st EXCEPT
         !.mobileAgg.percentage_of_traffic =
            IF totalImpressions > 0
              THEN JsMul(JsDiv(Num(st.mobileAgg.impressions), Num(totalImpressions)),
                         Num(100))
              ELSE Zero,
         !.desktopAgg.percentage_of_traffic =
            IF totalImpressions > 0
              THEN JsMul(JsDiv(Num(st.desktopAgg.impressions), Num(totalImpressions)),
                         Num(100))
              ELSE Zero]

\* "Calculate traffic percentage"
DeviceTrafficPercentage(st) ==
  LET totalImpressions == st.mobileAgg.impressions + st.desktopAgg.impressions
  IN  [st EXCEPT
         !.mobileAgg.percentage_of_traffic =
            IF totalImpressions > 0
              THEN JsMul(JsDiv(Num(st.mobileAgg.impressions), Num(totalImpressions)),
                         Num(100))
              ELSE Zero,
         !.desktopAgg.percentage_of_traffic =
            IF totalImpressions > 0
              THEN JsMul(JsDiv(Num(st.desktopAgg.impressions), Num(totalImpressions)),
                         Num(100))
              ELSE Zero]

\* the useMemo callback
ComputeDeviceData(data, h) ==
  IF data.ref = 0 THEN [threw |-> FALSE, out |-> DefaultDeviceData]
  ELSE LET st0 == [heap |-> h, threw |-> FALSE, mobileAgg |-> EmptyDevice("Mobile"),
                   desktopAgg |-> EmptyDevice("Desktop"), campaignBreakdown |-> <<>>]
           st == DeviceTrafficPercentage(DeviceDerivedMetrics(
                   DeviceCampaigns_forEach(st0, data.campaigns)))
       IN  [threw |-> st.threw,
            out |-> [mobileData |-> st.mobileAgg, desktopData |-> st.desktopAgg,
                     campaignDeviceBreakdown |-> st.campaignBreakdown]]

\* faulty variant of DeviceBucketROAS: no guard on spend
DeviceBucketROASUnguarded(bucket) == JsDiv(Num(bucket.revenue), Num(bucket.spend))

\* mobileROAS / desktopROAS of the render body
DeviceBucketROAS(bucket) ==
  IF bucket.spend > 0 THEN JsDiv(Num(bucket.revenue), Num(bucket.spend)) ELSE Zero

(***************************************************************************)
(* DemographicView.demographicData                                         *)
(***************************************************************************)
\* an object used as a string-keyed dictionary
EmptyObject == [k \in {} |-> Zero]
ObjectPut(obj, key, value) ==
  [k \in (DOMAIN obj) \cup {key} |-> IF k = key THEN value ELSE obj[k]]
\* !obj[key]: the property is absent (undefined) or holds a falsy number
ObjectFalsyAt(obj, key) == key \notin DOMAIN obj \/ JsFalsy(obj[key])

\* the value returned while marketingData is null
DefaultDemographicData ==
  [maleClicks |-> 0, maleSpend |-> Zero, maleRevenue |-> Zero,
   femaleClicks |-> 0, femaleSpend |-> Zero, femaleRevenue |-> Zero,
   ageGroupSpend |-> EmptyObject, ageGroupRevenue |-> EmptyObject,
   maleAgeGroupPerformance |-> <<>>, femaleAgeGroupPerformance |-> <<>>]

\* percentageMultiplier = demo.percentage_of_audience / 100
PercentageMultiplier(demo) == JsDiv(Num(demo.percentage_of_audience), Num(100))
\* faulty variant of DemoSpend: the whole campaign spend goes to every slice
DemoSpendUnallocated(campaign, demo) == Num(campaign.spend)

\* demoSpend = campaign.spend * percentageMultiplier
DemoSpend(campaign, demo) == JsMul(Num(campaign.spend), PercentageMultiplier(demo))
\* demoRevenue = campaign.revenue * percentageMultiplier
DemoRevenue(campaign, demo) == JsMul(Num(campaign.revenue), PercentageMultiplier(demo))

\* the object pushed on malePerformance / femalePerformance
AgePerformanceRow(campaign, demo) ==
  [campaign |-> campaign.name, age_group |-> demo.age_group,
   impressions |-> demo.performance.impressions, clicks |-> demo.performance.clicks,
   conversions |-> demo.performance.conversions, ctr |-> demo.performance.ctr,
   conversion_rate |-> demo.performance.conversion_rate]

\* "Aggregate by gender"
DemoGenderStep(st, campaign, demo) ==
  IF demo.gender = "Male"
    THEN [st EXCEPT !.maleClicks = @ + demo.performance.clicks,
                    !.maleSpend = JsAdd(@, DemoSpend(campaign, demo)),
                    !.maleRevenue = JsAdd(@, DemoRevenue(campaign, demo)),
                    !.malePerformance = Append(@, AgePerformanceRow(campaign, demo))]
  ELSE IF demo.gender = "Female"
    THEN [st EXCEPT !.femaleClicks = @ + demo.performance.clicks,
                    !.femaleSpend = JsAdd(@, DemoSpend(campaign, demo)),
                    !.femaleRevenue = JsAdd(@, DemoRevenue(campaign, demo)),
                    !.femalePerformance = Append(@, AgePerformanceRow(campaign, demo))]
  ELSE st

\* "Aggregate by age group"
DemoAgeGroupStep(st, campaign, demo) ==
  LET s1 == IF ObjectFalsyAt(st.ageGroupSpend, demo.age_group)
              THEN [st EXCEPT
                      !.ageGroupSpend = ObjectPut(@, demo.age_group, Zero),
                      !.ageGroupRevenue = ObjectPut(@, demo.age_group, Zero)]
              ELSE st
  IN  [s1 EXCEPT
         !.ageGroupSpend[demo.age_group] = JsAdd(@, DemoSpend(campaign, demo)),
         !.ageGroupRevenue[demo.age_group] = JsAdd(@, DemoRevenue(campaign, demo))]

\* callback of campaign.demographic_breakdown.forEach
DemoRecordStep(st, campaign, addr) ==
  DemoAgeGroupStep(DemoGenderStep(st, campaign, st.heap[addr]), campaign, st.heap[addr])

RECURSIVE DemoRecords_forEach(_, _, _)
DemoRecords_forEach(st, campaign, items) ==
  IF items = <<>> \/ st.threw THEN st
  ELSE DemoRecords_forEach(DemoRecordStep(st, campaign, Head(items)), campaign,
                           Tail(items))

\* callback of marketingData.campaigns.forEach
DemoCampaignStep(st, campaign) ==
  IF ~campaign.demographic_breakdown.present THEN st
  ELSE DemoRecords_forEach(st, campaign, campaign.demographic_breakdown.items)

RECURSIVE DemoCampaigns_forEach(_, _)
DemoCampaigns_forEach(st, campaigns) ==
  IF campaigns = <<>> \/ st.threw THEN st
  ELSE DemoCampaigns_forEach(DemoCampaignStep(st, Head(campaigns)), Tail(campaigns))

\* the useMemo callback
ComputeDemographicData(data, h) ==
  IF data.ref = 0 THEN [threw |-> FALSE, out |-> DefaultDemographicData]
  ELSE LET st0 == [heap |-> h, threw |-> FALSE,
                   maleClicks |-> 0, maleSpend |-> Zero, maleRevenue |-> Zero,
                   femaleClicks |-> 0, femaleSpend |-> Zero, femaleRevenue |-> Zero,
                   ageGroupSpend |-> EmptyObject, ageGroupRevenue |-> EmptyObject,
                   malePerformance |-> <<>>, femalePerformance |-> <<>>]
           st == DemoCampaigns_forEach(st0, data.campaigns)
       IN  [threw |-> st.threw,
            out |-> [maleClicks |-> st.maleClicks, maleSpend |-> st.maleSpend,
                     maleRevenue |-> st.maleRevenue, femaleClicks |-> st.femaleClicks,
                     femaleSpend |-> st.femaleSpend, femaleRevenue |-> st.femaleRevenue,
                     ageGroupSpend |-> st.ageGroupSpend,
                     ageGroupRevenue |-> st.ageGroupRevenue,
                     maleAgeGroupPerformance |-> st.malePerformance,
                     femaleAgeGroupPerformance |-> st.femalePerformance]]

(***************************************************************************)
(* LineChart.  The props are the series (each an array of {label, value})  *)
(* and the height; a render computes the shared value domain and the       *)
(* position of every point.                                                *)
(***************************************************************************)
MaxPoints == 3        \* data points of a chart, over all series
MaxSeries == 2        \* series of a chart

\* the values a data point may carry
ChartValues == {-5, -1, 0, 10, 20}
\* height: the default, and the one WeeklyView passes
ChartHeights == {300, 350}

NoLineProps == [given |-> TRUE, series |-> <<>>, height |-> 300]
NoLineChart == [rendered |-> FALSE]

\* series k of the props: the points owner assigns to it, labelled by position
MakeSeries(k, values, owner) ==
  LET idx == SelectIdx(owner, k, 1)
  IN  [name |-> k,
       data |-> [i \in 1..Len(idx) |-> [label |-> i, value |-> values[idx[i]]]]]

RECURSIVE FlatMapValues(_)
\* series.flatMap((s) => s.data.map((d) => d.value))
FlatMapValues(series) ==
  IF series = <<>> THEN <<>>
  ELSE [i \in 1..Len(Head(series).data) |-> Head(series).data[i].value]
         \o FlatMapValues(Tail(series))

\* faulty variant of LineChartNoData: one empty series is enough
LineChartNoDataSome(props) ==
  \/ ~props.given
  \/ Len(props.series) = 0
  \/ \E k \in 1..Len(props.series) : Len(props.series[k].data) = 0

\* !series || series.length === 0 || series.every((s) => s.data.length === 0);
\* props.given is FALSE when the series prop is null or undefined
LineChartNoData(props) ==
  \/ ~props.given
  \/ Len(props.series) = 0
  \/ \A k \in 1..Len(props.series) : Len(props.series[k].data) = 0

\* maxValue, minValue, valueRange, padding, chartMin, chartMax, chartRange
ChartDomain(allValues) ==
  LET maxValue == ArrayMax(allValues)
      minValue == ArrayMin(allValues)
      valueRange == maxValue - minValue
      padding == JsMul(Num(valueRange), Rat(1, 10))
      chartMin == MathMax(Zero, JsSub(Num(minValue), padding))
      chartMax == JsAdd(Num(maxValue), padding)
  IN  [chartMin |-> chartMin, chartMax |-> chartMax,
       chartRange |-> JsSub(chartMax, chartMin)]

\* getYPosition
GetYPosition(domain, chartHeight, value) ==
  IF domain.chartRange = Zero THEN JsDiv(Num(chartHeight), Num(2))
  ELSE JsSub(Num(chartHeight),
             JsMul(JsDiv(JsSub(Num(value), domain.chartMin), domain.chartRange),
                   Num(chartHeight)))

\* faulty variant of GetXPosition: the index is divided by the number of labels
GetXPositionOverCount(labels, index) ==
  IF Len(labels) <= 1 THEN Num(50)
  ELSE JsMul(JsDiv(Num(index), Num(Len(labels))), Num(100))

\* getXPosition; index counts from 0, chartWidth is 100
GetXPosition(labels, index) ==
  IF Len(labels) <= 1 THEN Num(50)
  ELSE JsMul(JsDiv(Num(index), Num(Len(labels) - 1)), Num(100))

\* the body of LineChart
RenderLineChart(props) ==
  IF LineChartNoData(props)
    THEN [rendered |-> TRUE, placeholder |-> TRUE]
    ELSE LET domain == ChartDomain(FlatMapValues(props.series))
             labels == [i \in 1..Len(props.series[1].data) |->
                          props.series[1].data[i].label]
             chartHeight == props.height - 80
         IN  [rendered |-> TRUE, placeholder |-> FALSE,
              chartMin |-> domain.chartMin, chartMax |-> domain.chartMax,
              chartRange |-> domain.chartRange, chartHeight |-> chartHeight,
              points |->
                [k \in 1..Len(props.series) |->
                   [i \in 1..Len(props.series[k].data) |->
                      [value |-> props.series[k].data[i].value,
                       x |-> GetXPosition(labels, i - 1),
                       y |-> GetYPosition(domain, chartHeight,
                                          props.series[k].data[i].value)]]]]

(***************************************************************************)
(* BubbleMap.  The data prop is an array of {region, country, value}.      *)
(* enrichedData is a useMemo cell keyed on the data reference; the render  *)
(* draws the circles from it and then sorts the same array in place for    *)
(* the table.                                                              *)
(*                                                                         *)
(* A square root is kept exact: MathSqrt(q) is the non-negative number     *)
(* whose square is q, written [sq |-> q].  size and opacity are a + b * r  *)
(* for such a root r, written [base |-> a, scale |-> b, root |-> r].       *)
(***************************************************************************)
MaxBubbles == 3       \* points of a data batch
MaxRenders == 2       \* renders of the mounted map that are followed

\* the values a point may carry
BubbleValues == {0, 10, 40, 90}
\* the regions a batch may name: the eight of the table and one outside it
RegionNames ==
  <<"Dubai", "Abu Dhabi", "Sharjah", "Ajman", "Ras Al Khaimah", "Fujairah",
    "Umm Al Quwain", "Al Ain", "Riyadh", "constructor">>

UAE_COORDINATES ==
  ("Dubai" :> [x |-> 62, y |-> 58]) @@ ("Abu Dhabi" :> [x |-> 45, y |-> 65]) @@
  ("Sharjah" :> [x |-> 65, y |-> 56]) @@ ("Ajman" :> [x |-> 67, y |-> 54]) @@
  ("Ras Al Khaimah" :> [x |-> 70, y |-> 42]) @@ ("Fujairah" :> [x |-> 75, y |-> 52]) @@
  ("Umm Al Quwain" :> [x |-> 68, y |-> 50]) @@ ("Al Ain" :> [x |-> 52, y |-> 68])

\* the value undefined
Undefined == <<>>

\* names every object literal inherits from Object.prototype; UAE_COORDINATES is
\* an object literal, so UAE_COORDINATES[name] is the inherited member for them
ObjectPrototypeKeys ==
  {"constructor", "toString", "valueOf", "hasOwnProperty", "__proto__"}

\* UAE_COORDINATES[region]: an own entry, an inherited member (an object without
\* x and y), or undefined
CoordinatesLookup(region) ==
  IF region \in DOMAIN UAE_COORDINATES
    THEN [x |-> Num(UAE_COORDINATES[region].x), y |-> Num(UAE_COORDINATES[region].y)]
  ELSE IF region \in ObjectPrototypeKeys THEN [x |-> Undefined, y |-> Undefined]
  ELSE Undefined

\* a batch: point i carries values[i] and the region i - 1 places after start
MakeBubbleData(values, start) ==
  [i \in 1..Len(values) |->
     [region |-> RegionNames[((start + i - 2) % Len(RegionNames)) + 1],
      country |-> "UAE", value |-> values[i]]]

NoBubbleMemo == [dep |-> 0, value |-> <<>>]
NoBubbleView == [renders |-> 0, placeholder |-> FALSE, drawn |-> <<>>, table |-> <<>>]

\* Math.sqrt(q), q >= 0
MathSqrt(q) == [sq |-> q]
\* the literal 0.5
Half == [sq |-> Rat(1, 4)]
\* a + b * r
Affine(a, b, r) == [base |-> a, scale |-> b, root |-> r]

\* faulty variant of NormalizedValue: the fraction is used without the square root
NormalizedValueLinear(d, minValue, maxValue) ==
  IF maxValue = minValue THEN Half
  ELSE LET q == JsDiv(Num(d.value - minValue), Num(maxValue - minValue))
       IN  [sq |-> JsMul(q, q)]

\* normalizedValue
NormalizedValue(d, minValue, maxValue) ==
  IF maxValue = minValue THEN Half
  ELSE MathSqrt(JsDiv(Num(d.value - minValue), Num(maxValue - minValue)))

\* the callback of data.map
EnrichPoint(d, minValue, maxValue) ==
  LET coords == IF CoordinatesLookup(d.region) # Undefined
                  THEN CoordinatesLookup(d.region) ELSE CoordinatesLookup("Dubai")
      normalizedValue == NormalizedValue(d, minValue, maxValue)
  IN  [region |-> d.region, country |-> d.country, value |-> d.value,
       x |-> coords.x, y |-> coords.y,
       size |-> Affine(Num(8), Num(24), normalizedValue),
       opacity |-> Affine(Rat(7, 10), Rat(3, 10), normalizedValue)]

\* faulty variant of BubbleCompare: smaller bubbles first
BubbleCompareAscending(a, b) ==
  IF JsLess(b.size.root.sq, a.size.root.sq) THEN 1
  ELSE IF JsLess(a.size.root.sq, b.size.root.sq) THEN -1 ELSE 0

\* the sign of b.size - a.size: both sizes are 8 + 24 * root, and roots are
\* ordered as their squares are
BubbleCompare(a, b) ==
  IF JsLess(a.size.root.sq, b.size.root.sq) THEN 1
  ELSE IF JsLess(b.size.root.sq, a.size.root.sq) THEN -1 ELSE 0

RECURSIVE BubbleInsert(_, _)
BubbleInsert(sorted, x) ==
  IF sorted = <<>> THEN <<x>>
  ELSE IF BubbleCompare(Head(sorted), x) > 0 THEN <<x>> \o sorted
  ELSE <<Head(sorted)>> \o BubbleInsert(Tail(sorted), x)

RECURSIVE BubbleSort(_, _)
\* Array.prototype.sort with BubbleCompare: stable
BubbleSort(sorted, rest) ==
  IF rest = <<>> THEN sorted
  ELSE BubbleSort(BubbleInsert(sorted, Head(rest)), Tail(rest))

\* the useMemo callback of enrichedData
ComputeEnrichedData(data) ==
  IF Len(data) = 0 THEN <<>>
  ELSE LET values == [i \in 1..Len(data) |-> data[i].value]
           maxValue == ArrayMax(values)
           minValue == ArrayMin(values)
       IN  BubbleSort(<<>>, [i \in 1..Len(data) |->
                               EnrichPoint(data[i], minValue, maxValue)])

\* faulty variant of TableCompare: lowest value first
TableCompareAscending(a, b) == a.value - b.value

\* (a, b) => b.value - a.value
TableCompare(a, b) == b.value - a.value

RECURSIVE TableInsert(_, _)
TableInsert(sorted, x) ==
  IF sorted = <<>> THEN <<x>>
  ELSE IF TableCompare(Head(sorted), x) > 0 THEN <<x>> \o sorted
  ELSE <<Head(sorted)>> \o TableInsert(Tail(sorted), x)

RECURSIVE TableSort(_, _)
\* enrichedData.sort(...): stable, and in place
TableSort(sorted, rest) ==
  IF rest = <<>> THEN sorted
  ELSE TableSort(TableInsert(sorted, Head(rest)), Tail(rest))

(***************************************************************************)
(* The page component: mount, the fetch settling, and renders.             *)
(***************************************************************************)
\* what the promise of fetchMarketingData() may reject with: an Error carrying a
\* human-readable message, or a value that is not an Error
Rejections ==
  { [isError |-> TRUE, message |-> "HTTP error! status: 500"],
    [isError |-> TRUE, message |-> "Failed to fetch"],
    [isError |-> FALSE, message |-> "timeout"] }

DefaultWeeklySummary == ComputeWeeklySummary(<<>>)
DefaultRegionalSummary == ComputeRegionalSummary(<<>>)
NoDeviceRender == [shown |-> FALSE, mobileROAS |-> Zero, desktopROAS |-> Zero]

\* what a render returns: the loading screen, or the page with the error banner
\* (or else the title) in the hero section and, under `marketingData &&`, the
\* metric cards, charts and tables
LoadingScreen == [kind |-> "loading", banner |-> FALSE, title |-> FALSE, content |-> FALSE]
PageScreen(err, data) ==
  [kind |-> "page", banner |-> err.set /\ err.text # "",
   title |-> ~(err.set /\ err.text # ""), content |-> data.ref # 0]
RenderScreen(isLoading, err, data) ==
  IF isLoading THEN LoadingScreen ELSE PageScreen(err, data)

\* no chart component is under study
ChartsIdle ==
  /\ lineProps = NoLineProps /\ lineChart = NoLineChart
  /\ bubbleProps = [ref |-> 0, data |-> <<>>]
  /\ bubbleMemo = NoBubbleMemo /\ bubbleView = NoBubbleView

\* the state after the component mounted: the first render ran with
\* marketingData = null and loading = true; the effect has not run yet
Init ==
  /\ view \in Views
  /\ marketingData = NullData
  /\ error = NoError
  /\ loading = TRUE
  /\ fetchState = "idle"
  /\ fetchCalls = 0
  /\ screen = LoadingScreen
  /\ memoRuns = 1
  /\ renderedRef = 0
  /\ ChartsIdle
  /\ heap = <<>>
  /\ fetched = NothingFetched
  /\ memoDep = 0
  /\ threw = FALSE
  /\ demographicData = DefaultDemographicData
  /\ deviceData = DefaultDeviceData
  /\ deviceRender = NoDeviceRender
  /\ weeklyData = <<>>
  /\ weeklySummary = DefaultWeeklySummary
  /\ weeklyRowRoas = <<>>
  /\ regionalData = <<>>
  /\ regionalSummary = DefaultRegionalSummary

\* faulty variant of MountEffect: no dependency array, so the effect runs again
\* after the render that follows the fetch settling
MountEffectNoDeps ==
  /\ fetchState \in {"idle", "settled"} /\ fetchCalls < 2
  /\ fetchCalls' = fetchCalls + 1
  /\ fetchState' = "pending"
  /\ UNCHANGED <<view, marketingData, error, loading, heap, fetched, memoDep, threw,
                 demographicData, deviceData, deviceRender, weeklyData, weeklySummary,
                 weeklyRowRoas, regionalData, regionalSummary, screen>>
  /\ UNCHANGED <<memoRuns, renderedRef, lineVars, bubbleVars>>

\* the useEffect callback with the dependency array []: it runs once, after the
\* first commit, and calls loadData, which calls fetchMarketingData()
MountEffect ==
  /\ fetchState = "idle"
  /\ fetchCalls' = fetchCalls + 1
  /\ fetchState' = "pending"
  /\ UNCHANGED <<view, marketingData, error, loading, heap, fetched, memoDep, threw,
                 demographicData, deviceData, deviceRender, weeklyData, weeklySummary,
                 weeklyRowRoas, regionalData, regionalSummary, screen>>
  /\ UNCHANGED <<memoRuns, renderedRef, lineVars, bubbleVars>>

\* faulty variant of FetchResolve: the snapshot is stored, loading is left set
FetchResolveKeepLoading ==
  /\ fetchState = "pending"
  /\ \E L \in 0..MaxRecords, n \in 0..MaxCampaigns :
       \E flat \in [1..L -> BreakdownRecords(view)], owner \in [1..L -> 1..n] :
         /\ \A i \in 1..(L - 1) : owner[i] <= owner[i + 1]
         /\ \E omit \in BOOLEAN, totals \in [1..n -> CampaignTotals(view)] :
              LET data == [ref |-> 1,
                           campaigns |-> MakeCampaigns(view, n, owner, omit, totals)]
              IN  /\ marketingData' = data
                  /\ heap' = flat
                  /\ fetched' = [data |-> data, heap |-> flat, rejection |-> <<>>]
  /\ fetchState' = "settled"
  /\ UNCHANGED <<view, error, loading, memoDep, threw, demographicData, deviceData,
                 deviceRender, weeklyData, weeklySummary, weeklyRowRoas,
                 regionalData, regionalSummary>>
  /\ UNCHANGED <<fetchCalls, screen, memoRuns, renderedRef, lineVars, bubbleVars>>

\* loadData resumes after `await fetchMarketingData()` resolved with data:
\* setMarketingData(data), then finally setLoading(false)
FetchResolve ==
  /\ fetchState = "pending"
  /\ \E L \in 0..MaxRecords, n \in 0..MaxCampaigns :
       \E flat \in [1..L -> BreakdownRecords(view)], owner \in [1..L -> 1..n] :
         /\ \A i \in 1..(L - 1) : owner[i] <= owner[i + 1]
         /\ \E omit \in BOOLEAN, totals \in [1..n -> CampaignTotals(view)] :
              LET data == [ref |-> 1,
                           campaigns |-> MakeCampaigns(view, n, owner, omit, totals)]
              IN  /\ marketingData' = data
                  /\ heap' = flat
                  /\ fetched' = [data |-> data, heap |-> flat, rejection |-> <<>>]
  /\ loading' = FALSE
  /\ fetchState' = "settled"
  /\ UNCHANGED <<view, error, memoDep, threw, demographicData, deviceData,
                 deviceRender, weeklyData, weeklySummary, weeklyRowRoas,
                 regionalData, regionalSummary>>
  /\ UNCHANGED <<fetchCalls, screen, memoRuns, renderedRef, lineVars, bubbleVars>>

\* faulty variant of FetchReject: no finally block, loading is left set
FetchRejectNoFinally ==
  /\ fetchState = "pending"
  /\ \E err \in Rejections :
       /\ error' = [set |-> TRUE,
                    text |-> IF err.isError THEN err.message ELSE "Failed to load data"]
       /\ fetched' = [fetched EXCEPT !.rejection = <<err>>]
  /\ fetchState' = "settled"
  /\ UNCHANGED <<view, marketingData, heap, memoDep, threw, demographicData,
                 deviceData, deviceRender, weeklyData, weeklySummary, weeklyRowRoas,
                 regionalData, regionalSummary, loading>>
  /\ UNCHANGED <<fetchCalls, screen, memoRuns, renderedRef, lineVars, bubbleVars>>

\* faulty variant of FetchReject: the fixed string is stored for every rejection
FetchRejectFixedMessage ==
  /\ fetchState = "pending"
  /\ \E err \in Rejections :
       /\ error' = [set |-> TRUE, text |-> "Failed to load data"]
       /\ fetched' = [fetched EXCEPT !.rejection = <<err>>]
  /\ loading' = FALSE
  /\ fetchState' = "settled"
  /\ UNCHANGED <<view, marketingData, heap, memoDep, threw, demographicData,
                 deviceData, deviceRender, weeklyData, weeklySummary, weeklyRowRoas,
                 regionalData, regionalSummary>>
  /\ UNCHANGED <<fetchCalls, screen, memoRuns, renderedRef, lineVars, bubbleVars>>

\* loadData resumes in its catch block: setError(...), then finally setLoading(false)
FetchReject ==
  /\ fetchState = "pending"
  /\ \E err \in Rejections :
       /\ error' = [set |-> TRUE,
                    text |-> IF err.isError THEN err.message ELSE "Failed to load data"]
       /\ fetched' = [fetched EXCEPT !.rejection = <<err>>]
  /\ loading' = FALSE
  /\ fetchState' = "settled"
  /\ UNCHANGED <<view, marketingData, heap, memoDep, threw, demographicData,
                 deviceData, deviceRender, weeklyData, weeklySummary, weeklyRowRoas,
                 regionalData, regionalSummary>>
  /\ UNCHANGED <<fetchCalls, screen, memoRuns, renderedRef, lineVars, bubbleVars>>

\* faulty variant of MemoHit: the cached result is never reused
MemoHitNever(dep, ref) == FALSE

\* useMemo(..., [marketingData]): the cached result is reused when the dependency
\* is the reference the result was computed for
MemoHit(dep, ref) == dep = ref

\* a render of WeeklyView: the two useMemo hooks, then the table's ROAS cells
\* unless the render returns the loading screen
RenderWeekly ==
  /\ view = "weekly" /\ ~threw
  /\ IF MemoHit(memoDep, marketingData.ref)
       THEN /\ UNCHANGED <<heap, threw, memoDep, weeklyData, weeklySummary>>
            /\ weeklyRowRoas' =
                 IF loading \/ marketingData.ref = 0 THEN weeklyRowRoas
                 ELSE [i \in 1..Len(weeklyData) |-> WeeklyRowRoas(heap[weeklyData[i]])]
       ELSE LET r == ComputeWeeklyData(marketingData, heap)
            IN  /\ heap' = r.heap
                /\ threw' = r.threw
                /\ IF r.threw
                     THEN UNCHANGED <<memoDep, weeklyData, weeklySummary, weeklyRowRoas>>
                     ELSE /\ memoDep' = marketingData.ref
                          /\ weeklyData' = r.out
                          /\ weeklySummary' = ComputeWeeklySummary(Deref(r.heap, r.out))
                          /\ weeklyRowRoas' =
                               IF loading \/ marketingData.ref = 0 THEN weeklyRowRoas
                               ELSE [i \in 1..Len(r.out) |->
                                       WeeklyRowRoas(r.heap[r.out[i]])]
  /\ UNCHANGED <<view, marketingData, error, loading, fetchState, fetched,
                 demographicData, deviceData, deviceRender, regionalData,
                 regionalSummary>>
  /\ screen' = IF threw' THEN screen ELSE RenderScreen(loading, error, marketingData)
  /\ memoRuns' = IF MemoHit(memoDep, marketingData.ref) THEN memoRuns ELSE memoRuns + 1
  /\ renderedRef' = marketingData.ref
  /\ UNCHANGED <<fetchCalls, lineVars, bubbleVars>>

\* a render of RegionView: the two useMemo hooks
RenderRegion ==
  /\ view = "region" /\ ~threw
  /\ IF MemoHit(memoDep, marketingData.ref)
       THEN UNCHANGED <<heap, threw, memoDep, regionalData, regionalSummary>>
       ELSE LET r == ComputeRegionalData(marketingData, heap)
            IN  /\ heap' = r.heap
                /\ threw' = r.threw
                /\ IF r.threw
                     THEN UNCHANGED <<memoDep, regionalData, regionalSummary>>
                     ELSE /\ memoDep' = marketingData.ref
                          /\ regionalData' = r.out
                          /\ regionalSummary' =
                               ComputeRegionalSummary(Deref(r.heap, r.out))
  /\ UNCHANGED <<view, marketingData, error, loading, fetchState, fetched,
                 demographicData, deviceData, deviceRender, weeklyData, weeklySummary,
                 weeklyRowRoas>>
  /\ screen' = IF threw' THEN screen ELSE RenderScreen(loading, error, marketingData)
  /\ memoRuns' = IF MemoHit(memoDep, marketingData.ref) THEN memoRuns ELSE memoRuns + 1
  /\ renderedRef' = marketingData.ref
  /\ UNCHANGED <<fetchCalls, lineVars, bubbleVars>>

\* a render of DeviceView: the useMemo hook, then mobileROAS and desktopROAS
\* unless the render returns the loading screen
RenderDevice ==
  /\ view = "device" /\ ~threw
  /\ LET r == IF MemoHit(memoDep, marketingData.ref)
                THEN [threw |-> FALSE, out |-> deviceData]
                ELSE ComputeDeviceData(marketingData, heap)
     IN  /\ threw' = r.threw
         /\ IF r.threw
              THEN UNCHANGED <<memoDep, deviceData, deviceRender>>
              ELSE /\ memoDep' = marketingData.ref
                   /\ deviceData' = r.out
                   /\ deviceRender' =
                        IF loading THEN deviceRender
                        ELSE [shown |-> TRUE,
                              mobileROAS |-> DeviceBucketROAS(r.out.mobileData),
                              desktopROAS |-> DeviceBucketROAS(r.out.desktopData)]
  /\ UNCHANGED <<view, marketingData, error, loading, fetchState, heap, fetched,
                 demographicData, weeklyData, weeklySummary, weeklyRowRoas,
                 regionalData, regionalSummary>>
  /\ screen' = IF threw' THEN screen ELSE RenderScreen(loading, error, marketingData)
  /\ memoRuns' = IF MemoHit(memoDep, marketingData.ref) THEN memoRuns ELSE memoRuns + 1
  /\ renderedRef' = marketingData.ref
  /\ UNCHANGED <<fetchCalls, lineVars, bubbleVars>>

\* a render of DemographicView: the useMemo hook
RenderDemographic ==
  /\ view = "demographic" /\ ~threw
  /\ LET r == IF MemoHit(memoDep, marketingData.ref)
                THEN [threw |-> FALSE, out |-> demographicData]
                ELSE ComputeDemographicData(marketingData, heap)
     IN  /\ threw' = r.threw
         /\ IF r.threw
              THEN UNCHANGED <<memoDep, demographicData>>
              ELSE /\ memoDep' = marketingData.ref
                   /\ demographicData' = r.out
  /\ UNCHANGED <<view, marketingData, error, loading, fetchState, heap, fetched,
                 deviceData, deviceRender, weeklyData, weeklySummary, weeklyRowRoas,
                 regionalData, regionalSummary>>
  /\ screen' = IF threw' THEN screen ELSE RenderScreen(loading, error, marketingData)
  /\ memoRuns' = IF MemoHit(memoDep, marketingData.ref) THEN memoRuns ELSE memoRuns + 1
  /\ renderedRef' = marketingData.ref
  /\ UNCHANGED <<fetchCalls, lineVars, bubbleVars>>

Next ==
  \/ MountEffect
  \/ FetchResolve
  \/ FetchReject
  \/ RenderWeekly
  \/ RenderRegion
  \/ RenderDevice
  \/ RenderDemographic

Spec == Init /\ [][Next]_vars

(***************************************************************************)
(* The chart components under study: one specification each.               *)
(***************************************************************************)
\* no page is mounted
PagesIdle ==
  /\ view = "none"
  /\ marketingData = NullData /\ error = NoError /\ loading = TRUE
  /\ fetchState = "idle" /\ fetchCalls = 0 /\ screen = LoadingScreen
  /\ memoRuns = 1 /\ renderedRef = 0
  /\ heap = <<>> /\ fetched = NothingFetched
  /\ memoDep = 0 /\ threw = FALSE
  /\ demographicData = DefaultDemographicData
  /\ deviceData = DefaultDeviceData /\ deviceRender = NoDeviceRender
  /\ weeklyData = <<>> /\ weeklySummary = DefaultWeeklySummary /\ weeklyRowRoas = <<>>
  /\ regionalData = <<>> /\ regionalSummary = DefaultRegionalSummary

\* a LineChart is handed its props
LineChartInit ==
  /\ PagesIdle
  /\ bubbleProps = [ref |-> 0, data |-> <<>>]
  /\ bubbleMemo = NoBubbleMemo /\ bubbleView = NoBubbleView
  /\ \E L \in 0..MaxPoints, n \in 0..MaxSeries, height \in ChartHeights :
       \E values \in [1..L -> ChartValues], owner \in [1..L -> 1..n] :
         /\ \A i \in 1..(L - 1) : owner[i] <= owner[i + 1]
         /\ \E given \in (IF n = 0 THEN BOOLEAN ELSE {TRUE}) :
              lineProps = [given |-> given,
                           series |-> [k \in 1..n |-> MakeSeries(k, values, owner)],
                           height |-> height]
  /\ lineChart = NoLineChart

\* a render of LineChart
LineChartRender ==
  /\ ~lineChart.rendered
  /\ lineChart' = RenderLineChart(lineProps)
  /\ UNCHANGED <<lineProps, pageVars, bubbleVars>>

LineChartNext == LineChartRender

LineChartSpec == LineChartInit /\ [][LineChartNext]_vars

\* a BubbleMap is mounted with its data prop
BubbleMapInit ==
  /\ PagesIdle
  /\ lineProps = NoLineProps /\ lineChart = NoLineChart
  /\ \E L \in 0..MaxBubbles, start \in 1..Len(RegionNames) :
       \E values \in [1..L -> BubbleValues] :
         bubbleProps = [ref |-> 1, data |-> MakeBubbleData(values, start)]
  /\ bubbleMemo = NoBubbleMemo
  /\ bubbleView = NoBubbleView

\* a render of BubbleMap with the data prop unchanged: the useMemo hook, the early
\* return for an empty batch, the circles (enrichedData.map) and then the table
\* rows (enrichedData.sort(...).map), which sorts the memoized array itself
BubbleRender ==
  /\ bubbleView.renders < MaxRenders
  /\ LET enrichedData == IF bubbleMemo.dep = bubbleProps.ref THEN bubbleMemo.value
                         ELSE ComputeEnrichedData(bubbleProps.data)
     IN  IF Len(bubbleProps.data) = 0
           THEN /\ bubbleMemo' = [dep |-> bubbleProps.ref, value |-> enrichedData]
                /\ bubbleView' = [renders |-> bubbleView.renders + 1, placeholder |-> TRUE,
                                  drawn |-> <<>>, table |-> <<>>]
           ELSE LET rows == TableSort(<<>>, enrichedData)
                IN  /\ bubbleMemo' = [dep |-> bubbleProps.ref, value |-> rows]
                    /\ bubbleView' = [renders |-> bubbleView.renders + 1,
                                      placeholder |-> FALSE,
                                      drawn |-> enrichedData, table |-> rows]
  /\ UNCHANGED <<bubbleProps, pageVars, lineVars>>

BubbleMapNext == BubbleRender

BubbleMapSpec == BubbleMapInit /\ [][BubbleMapNext]_vars

(***************************************************************************)
(* What the properties below are stated in: the fetched input, read        *)
(* directly (never through the aggregation operators above).               *)
(***************************************************************************)
\* the aggregates of the mounted page were computed from the fetched snapshot
Aggregated == fetchState = "settled" /\ marketingData.ref = 1 /\ memoDep = 1 /\ ~threw

\* the breakdown of campaign c that the mounted page reads
InputBreakdown(c) ==
  LET campaign == fetched.data.campaigns[c]
  IN  CASE view = "demographic" -> campaign.demographic_breakdown
        [] view = "device" -> campaign.device_performance
        [] view = "weekly" -> campaign.weekly_performance
        [] view = "region" -> campaign.regional_performance

\* every (campaign index, record address) of the input
InputSlots ==
  UNION { {<<c, InputBreakdown(c).items[i]>> : i \in 1..Len(InputBreakdown(c).items)} :
          c \in 1..Len(fetched.data.campaigns) }

RECURSIVE EncounterFrom(_)
EncounterFrom(c) ==
  IF c > Len(fetched.data.campaigns) THEN <<>>
  ELSE InputBreakdown(c).items \o EncounterFrom(c + 1)

\* the record addresses in the order campaigns and their arrays list them
Encounter == EncounterFrom(1)
InputAddrs == {Encounter[i] : i \in 1..Len(Encounter)}
Input(a) == fetched.heap[a]

\* position of the first record in Encounter that satisfies key = k
FirstWith(fld, k) ==
  CHOOSE i \in 1..Len(Encounter) :
    /\ Input(Encounter[i])[fld] = k
    /\ \A j \in 1..(i - 1) : Input(Encounter[j])[fld] # k

RECURSIVE SumFn(_, _)
SumFn(f, S) ==
  IF S = {} THEN 0
  ELSE LET x == CHOOSE y \in S : TRUE IN f[x] + SumFn(f, S \ {x})

\* the sum of field fld over the input records at the addresses S
Total(S, fld) == SumFn([a \in S |-> Input(a)[fld]], S)

WeeklyRows == Deref(heap, weeklyData)
RegionalRows == Deref(heap, regionalData)

(***************************************************************************)
(* C1.  Regional rollup: a region reported by two or more records carries  *)
(* ctr, conversion_rate, cpc, cpa and roas computed from the summed raw    *)
(* counts of all its records (wherever the summed denominator is           *)
(* positive), not from the records' pre-computed rates.                    *)
(***************************************************************************)
RegionAddrs(k) == {a \in InputAddrs : Input(a).region = k}

C1_RegionalRatesFromSums ==
  (view = "region" /\ Aggregated) =>
    \A k \in {Input(a).region : a \in InputAddrs} :
      Cardinality(RegionAddrs(k)) >= 2 =>
        \E i \in 1..Len(RegionalRows) :
          LET e == RegionalRows[i]
              impressions == Total(RegionAddrs(k), "impressions")
              clicks == Total(RegionAddrs(k), "clicks")
              conversions == Total(RegionAddrs(k), "conversions")
              spend == Total(RegionAddrs(k), "spend")
              revenue == Total(RegionAddrs(k), "revenue")
          IN  /\ e.region = k
              /\ impressions > 0 => e.ctr = Rat(100 * clicks, impressions)
              /\ clicks > 0 => e.conversion_rate = Rat(100 * conversions, clicks)
              /\ clicks > 0 => e.cpc = Rat(spend, clicks)
              /\ conversions > 0 => e.cpa = Rat(spend, conversions)
              /\ spend > 0 => e.roas = Rat(revenue, spend)

\* (spend 100, revenue 200) merged with (spend 50, revenue 50): roas 250/150,
\* which is not the average 3/2 of 2 and 1
C1_Witness ==
  /\ view = "region" /\ Aggregated
  /\ \E i \in 1..Len(RegionalRows) :
       /\ RegionalRows[i].region = "Dubai"
       /\ RegionalRows[i].spend = 150 /\ RegionalRows[i].revenue = 250
       /\ RegionalRows[i].roas = <<5, 3>>

(***************************************************************************)
(* C2.  Demographic rollup: for every age_group label, ageGroupSpend and   *)
(* ageGroupRevenue hold the sums of campaign.spend * pct/100 and           *)
(* campaign.revenue * pct/100 over every slice with that label; nothing    *)
(* accumulated is lost, also after a slice that contributed a spend of 0.  *)
(***************************************************************************)
AgeSlots(label) == {s \in InputSlots : Input(s[2]).age_group = label}

\* 100 times the share of the campaign total fld allocated to the slots S
AllocatedTimes100(S, fld) ==
  SumFn([s \in S |->
           fetched.data.campaigns[s[1]][fld] * Input(s[2]).percentage_of_audience], S)

C2_AgeGroupTotals ==
  (view = "demographic" /\ Aggregated) =>
    \A label \in {Input(s[2]).age_group : s \in InputSlots} :
      /\ label \in DOMAIN demographicData.ageGroupSpend
      /\ label \in DOMAIN demographicData.ageGroupRevenue
      /\ demographicData.ageGroupSpend[label] =
           Rat(AllocatedTimes100(AgeSlots(label), "spend"), 100)
      /\ demographicData.ageGroupRevenue[label] =
           Rat(AllocatedTimes100(AgeSlots(label), "revenue"), 100)

(***************************************************************************)
(* C3.  Weekly rollup: exactly one entry per distinct week_start string of *)
(* the input; its impressions, clicks, conversions, spend and revenue are  *)
(* the sums over every record with that week_start; week_end is that of    *)
(* the first record encountered for the key.                               *)
(***************************************************************************)
WeekAddrs(k) == {a \in InputAddrs : Input(a).week_start = k}

C3_WeeklyOneEntryPerKey ==
  (view = "weekly" /\ Aggregated) =>
    /\ {WeeklyRows[i].week_start : i \in 1..Len(WeeklyRows)} =
         {Input(a).week_start : a \in InputAddrs}
    /\ \A i, j \in 1..Len(WeeklyRows) :
         WeeklyRows[i].week_start = WeeklyRows[j].week_start => i = j
    /\ \A i \in 1..Len(WeeklyRows) :
         LET e == WeeklyRows[i]
             S == WeekAddrs(e.week_start)
         IN  /\ e.impressions = Total(S, "impressions")
             /\ e.clicks = Total(S, "clicks")
             /\ e.conversions = Total(S, "conversions")
             /\ e.spend = Total(S, "spend")
             /\ e.revenue = Total(S, "revenue")
             /\ e.week_end = Input(Encounter[FirstWith("week_start", e.week_start)]).week_end

\* two campaigns report the week 2024-01-01 with clicks 10 and 20: one entry, clicks 30
C3_Witness ==
  /\ view = "weekly" /\ Aggregated
  /\ Len(fetched.data.campaigns) = 2
  /\ \A c \in 1..2 : Len(InputBreakdown(c).items) = 1
  /\ Input(InputBreakdown(1).items[1]).clicks = 10
  /\ Input(InputBreakdown(2).items[1]).clicks = 20
  /\ Input(InputBreakdown(2).items[1]).week_end # Input(InputBreakdown(1).items[1]).week_end
  /\ Len(WeeklyRows) = 1
  /\ WeeklyRows[1].clicks = 30

(***************************************************************************)
(* C4.  Device rollup: the Mobile and Desktop buckets hold the sums of the *)
(* five raw fields of the records of that device, and ctr and              *)
(* conversion_rate are computed from the summed counts, not from the       *)
(* records' pre-computed rates.                                            *)
(***************************************************************************)
DeviceAddrs(d) == {a \in InputAddrs : Input(a).device = d}
Bucket(d) == IF d = "Mobile" THEN deviceData.mobileData ELSE deviceData.desktopData

RECURSIVE RatSumFn(_, _)
RatSumFn(f, S) ==
  IF S = {} THEN Zero
  ELSE LET x == CHOOSE y \in S : TRUE IN JsAdd(f[x], RatSumFn(f, S \ {x}))

\* the mean of the pre-computed ctr values of the records of device d
MeanCtr(d) ==
  JsDiv(RatSumFn([a \in DeviceAddrs(d) |-> Input(a).ctr], DeviceAddrs(d)),
        Num(Cardinality(DeviceAddrs(d))))

BucketFromSums(d) ==
  LET b == Bucket(d)
      S == DeviceAddrs(d)
  IN  /\ b.impressions = Total(S, "impressions")
      /\ b.clicks = Total(S, "clicks")
      /\ b.conversions = Total(S, "conversions")
      /\ b.spend = Total(S, "spend")
      /\ b.revenue = Total(S, "revenue")
      /\ Total(S, "impressions") > 0 =>
           b.ctr = Rat(100 * Total(S, "clicks"), Total(S, "impressions"))
      /\ Total(S, "clicks") > 0 =>
           b.conversion_rate = Rat(100 * Total(S, "conversions"), Total(S, "clicks"))

\* C4 as claimed: ... and whenever two campaigns report a device with unequal
\* impressions, the bucket ctr differs from the mean of the per-campaign ctr values
C4_DeviceCtrDiffersFromMean ==
  (view = "device" /\ Aggregated) =>
    \A d \in {"Mobile", "Desktop"} :
      /\ BucketFromSums(d)
      /\ (\E s, t \in InputSlots :
            /\ s[1] # t[1]
            /\ Input(s[2]).device = d /\ Input(t[2]).device = d
            /\ Input(s[2]).impressions # Input(t[2]).impressions)
           => Bucket(d).ctr # MeanCtr(d)

\* C4 as amended: ... and for two records of a device whose ctr values are their
\* own clicks / impressions * 100, the bucket ctr differs from the mean of the two
\* whenever both their impressions and their ctr values are unequal
C4_DeviceBucketsFromSums ==
  (view = "device" /\ Aggregated) =>
    \A d \in {"Mobile", "Desktop"} :
      /\ BucketFromSums(d)
      /\ \A a, b \in DeviceAddrs(d) :
           ( /\ DeviceAddrs(d) = {a, b}
             /\ Input(a).impressions > 0 /\ Input(b).impressions > 0
             /\ Input(a).ctr = Rat(100 * Input(a).clicks, Input(a).impressions)
             /\ Input(b).ctr = Rat(100 * Input(b).clicks, Input(b).impressions)
             /\ Input(a).impressions # Input(b).impressions
             /\ Input(a).ctr # Input(b).ctr )
           => Bucket(d).ctr # MeanCtr(d)

\* Mobile records (100 impressions, ctr 10) and (300 impressions, ctr 20):
\* bucket ctr 70/400*100 = 17.5, mean 15
C4_Witness ==
  /\ view = "device" /\ Aggregated
  /\ Cardinality(DeviceAddrs("Mobile")) = 2
  /\ deviceData.mobileData.impressions = 400
  /\ deviceData.mobileData.ctr = <<35, 2>>
  /\ MeanCtr("Mobile") = Num(15)

(***************************************************************************)
(* C5.  Demographic rollup, gender buckets: maleClicks is the sum of       *)
(* performance.clicks over the Male slices, maleSpend and maleRevenue the  *)
(* sums of campaign.spend * pct/100 and campaign.revenue * pct/100 over    *)
(* them (likewise Female); when the slices of every campaign are all Male  *)
(* or Female with percentages summing to 100, maleSpend + femaleSpend is   *)
(* the sum of campaign.spend over the campaigns that have slices.          *)
(***************************************************************************)
GenderSlots(g) == {s \in InputSlots : Input(s[2]).gender = g}
CampaignSlots(c) == {s \in InputSlots : s[1] = c}
ClicksOf(S) == SumFn([s \in S |-> Input(s[2]).performance.clicks], S)

\* every campaign's slices are Male or Female and their percentages sum to 100
FullySplitByGender ==
  \A c \in 1..Len(fetched.data.campaigns) :
    /\ \A s \in CampaignSlots(c) : Input(s[2]).gender \in {"Male", "Female"}
    /\ CampaignSlots(c) # {} =>
         SumFn([s \in CampaignSlots(c) |-> Input(s[2]).percentage_of_audience],
               CampaignSlots(c)) = 100

C5_GenderBuckets ==
  (view = "demographic" /\ Aggregated) =>
    /\ demographicData.maleClicks = ClicksOf(GenderSlots("Male"))
    /\ demographicData.femaleClicks = ClicksOf(GenderSlots("Female"))
    /\ demographicData.maleSpend =
         Rat(AllocatedTimes100(GenderSlots("Male"), "spend"), 100)
    /\ demographicData.maleRevenue =
         Rat(AllocatedTimes100(GenderSlots("Male"), "revenue"), 100)
    /\ demographicData.femaleSpend =
         Rat(AllocatedTimes100(GenderSlots("Female"), "spend"), 100)
    /\ demographicData.femaleRevenue =
         Rat(AllocatedTimes100(GenderSlots("Female"), "revenue"), 100)
    /\ FullySplitByGender =>
         JsAdd(demographicData.maleSpend, demographicData.femaleSpend) =
           Num(SumFn([c \in {s[1] : s \in InputSlots} |-> fetched.data.campaigns[c].spend],
                     {s[1] : s \in InputSlots}))

\* a campaign with spend 100 split 50% Male, 50% Female
C5_Witness ==
  /\ view = "demographic" /\ Aggregated
  /\ FullySplitByGender
  /\ Len(fetched.data.campaigns) = 1
  /\ fetched.data.campaigns[1].spend = 100
  /\ demographicData.maleSpend = Num(50)
  /\ demographicData.femaleSpend = Num(50)
  /\ demographicData.maleClicks = 10 /\ demographicData.femaleClicks = 20

(***************************************************************************)
(* C6.  No aggregation mutates the fetched MarketingData: every campaign   *)
(* and every breakdown record keeps the field values it was fetched with,  *)
(* through every render.                                                   *)
(***************************************************************************)
C6_InputNotMutated ==
  fetchState = "settled" =>
    /\ marketingData = fetched.data
    /\ Len(heap) >= Len(fetched.heap)
    /\ \A a \in 1..Len(fetched.heap) : heap[a] = fetched.heap[a]

\* a weekly or regional accumulator was seeded from a record and then added to
C6_Witness ==
  /\ Aggregated
  /\ \/ /\ view = "weekly"
        /\ \E i \in 1..Len(WeeklyRows) :
             WeeklyRows[i].clicks >
               Input(Encounter[FirstWith("week_start", WeeklyRows[i].week_start)]).clicks
     \/ /\ view = "region"
        /\ \E i \in 1..Len(RegionalRows) :
             RegionalRows[i].clicks >
               Input(Encounter[FirstWith("region", RegionalRows[i].region)]).clicks

(***************************************************************************)
(* C7.  Every ratio of the aggregation code is a finite number and is 0    *)
(* when its denominator is 0: device bucket ctr, conversion_rate,          *)
(* percentage_of_traffic and ROAS, per-record device roas, the merged      *)
(* regional rates, the weekly table's roas and the weekly averages.        *)
(***************************************************************************)
GuardedRatio(x, denominator) == IsFinite(x) /\ (denominator = 0 => x = Zero)

C7_RatiosGuarded ==
  /\ (view = "device" /\ Aggregated) =>
       LET total == deviceData.mobileData.impressions + deviceData.desktopData.impressions
       IN  /\ \A b \in {deviceData.mobileData, deviceData.desktopData} :
                /\ GuardedRatio(b.ctr, b.impressions)
                /\ GuardedRatio(b.conversion_rate, b.clicks)
                /\ GuardedRatio(b.percentage_of_traffic, total)
           /\ \A i \in 1..Len(deviceData.campaignDeviceBreakdown) :
                GuardedRatio(deviceData.campaignDeviceBreakdown[i].roas,
                             deviceData.campaignDeviceBreakdown[i].spend)
           /\ deviceRender.shown
           /\ GuardedRatio(deviceRender.mobileROAS, deviceData.mobileData.spend)
           /\ GuardedRatio(deviceRender.desktopROAS, deviceData.desktopData.spend)
  /\ (view = "region" /\ Aggregated) =>
       \A i \in 1..Len(RegionalRows) :
         LET e == RegionalRows[i]
         IN  Cardinality(RegionAddrs(e.region)) >= 2 =>
               /\ GuardedRatio(e.ctr, e.impressions)
               /\ GuardedRatio(e.conversion_rate, e.clicks)
               /\ GuardedRatio(e.cpc, e.clicks)
               /\ GuardedRatio(e.cpa, e.conversions)
               /\ GuardedRatio(e.roas, e.spend)
  /\ view = "weekly" =>
       /\ GuardedRatio(weeklySummary.averageWeeklyRevenue, Len(weeklyData))
       /\ GuardedRatio(weeklySummary.averageWeeklySpend, Len(weeklyData))
  /\ (view = "weekly" /\ Aggregated) =>
       /\ Len(weeklyRowRoas) = Len(WeeklyRows)
       /\ \A i \in 1..Len(WeeklyRows) : GuardedRatio(weeklyRowRoas[i], WeeklyRows[i].spend)

\* Mobile bucket empty, Desktop bucket with impressions but no clicks
C7_Witness ==
  /\ view = "device" /\ Aggregated /\ deviceRender.shown
  /\ deviceData.mobileData.impressions = 0 /\ deviceData.mobileData.spend = 0
  /\ deviceData.desktopData.impressions > 0 /\ deviceData.desktopData.clicks = 0
  /\ deviceRender.mobileROAS = Zero
  /\ deviceData.desktopData.conversion_rate = Zero

(***************************************************************************)
(* C8.  A campaign that omits the breakdown raises no error and            *)
(* contributes nothing: the aggregate equals the aggregate of the same     *)
(* campaign list with the campaigns lacking that breakdown removed.        *)
(***************************************************************************)
CampaignBreakdown(campaign) ==
  CASE view = "demographic" -> campaign.demographic_breakdown
    [] view = "device" -> campaign.device_performance
    [] view = "weekly" -> campaign.weekly_performance
    [] view = "region" -> campaign.regional_performance

HasBreakdown(campaign) == CampaignBreakdown(campaign).present

WithoutOmitting == [fetched.data EXCEPT !.campaigns = SelectSeq(@, HasBreakdown)]

C8_MissingBreakdownSkipped ==
  /\ ~threw
  /\ Aggregated =>
       CASE view = "demographic" ->
              demographicData = ComputeDemographicData(WithoutOmitting, fetched.heap).out
         [] view = "device" ->
              deviceData = ComputeDeviceData(WithoutOmitting, fetched.heap).out
         [] view = "weekly" ->
              LET r == ComputeWeeklyData(WithoutOmitting, fetched.heap)
              IN  WeeklyRows = Deref(r.heap, r.out)
         [] view = "region" ->
              LET r == ComputeRegionalData(WithoutOmitting, fetched.heap)
              IN  RegionalRows = Deref(r.heap, r.out)

\* a campaign without device_performance precedes one that has records
C8_Witness ==
  /\ view = "device" /\ Aggregated
  /\ Len(fetched.data.campaigns) = 2
  /\ ~HasBreakdown(fetched.data.campaigns[1])
  /\ Len(fetched.data.campaigns[2].device_performance.items) >= 2
  /\ Len(deviceData.campaignDeviceBreakdown) >= 2

(***************************************************************************)
(* C9.  Weekly rollup output is ascending by the instant week_start        *)
(* denotes; entries whose week_start denote the same instant keep the      *)
(* order in which their keys were first encountered.                       *)
(***************************************************************************)
C9_WeeklySortedStable ==
  (view = "weekly" /\ Aggregated) =>
    \A i, j \in 1..Len(WeeklyRows) :
      i < j =>
        LET ti == DateGetTime(WeeklyRows[i].week_start)
            tj == DateGetTime(WeeklyRows[j].week_start)
        IN  \/ ti < tj
            \/ /\ ti = tj
               /\ FirstWith("week_start", WeeklyRows[i].week_start)
                    < FirstWith("week_start", WeeklyRows[j].week_start)

\* three entries, two of them at the same instant, met in an order that is not
\* chronological
C9_Witness ==
  /\ view = "weekly" /\ Aggregated
  /\ Len(WeeklyRows) = 3
  /\ \E i \in 1..2 :
       DateGetTime(WeeklyRows[i].week_start) = DateGetTime(WeeklyRows[i + 1].week_start)
  /\ DateGetTime(Input(Encounter[1]).week_start)
       > DateGetTime(Input(Encounter[3]).week_start)

(***************************************************************************)
(* C10.  Regional rollup output is ordered by non-increasing merged        *)
(* revenue (the revenue summed over all records of the region); the first  *)
(* entry, reported as the top region, has the maximum summed revenue.      *)
(***************************************************************************)
C10_RegionalSortedByRevenue ==
  (view = "region" /\ Aggregated) =>
    /\ \A i \in 1..Len(RegionalRows) :
         RegionalRows[i].revenue = Total(RegionAddrs(RegionalRows[i].region), "revenue")
    /\ \A i, j \in 1..Len(RegionalRows) :
         i < j => RegionalRows[i].revenue >= RegionalRows[j].revenue
    /\ Len(RegionalRows) > 0 =>
         /\ regionalSummary.topRegion = RegionalRows[1].region
         /\ \A a \in InputAddrs :
              Total(RegionAddrs(Input(a).region), "revenue")
                <= Total(RegionAddrs(regionalSummary.topRegion), "revenue")

\* Abu Dhabi (300) is met first, Dubai's two records (200 + 200) overtake it
C10_Witness ==
  /\ view = "region" /\ Aggregated
  /\ Len(RegionalRows) = 2
  /\ Input(Encounter[1]).region = "Abu Dhabi"
  /\ RegionalRows[1].region = "Dubai" /\ RegionalRows[1].revenue = 400
  /\ RegionalRows[2].region = "Abu Dhabi" /\ RegionalRows[2].revenue = 300
  /\ regionalSummary.topRegion = "Dubai"

(***************************************************************************)
(* C11.  Line chart value domain: the domain used to place the points is   *)
(* [min - 0.1 * (max - min), max + 0.1 * (max - min)], min and max taken    *)
(* over every value of every series: the same padding at both ends, for    *)
(* every input.                                                            *)
(***************************************************************************)
\* the points the chart was handed, read from the props
PlottedValues ==
  UNION {{lineProps.series[k].data[i].value : i \in 1..Len(lineProps.series[k].data)} :
           k \in 1..Len(lineProps.series)}
LowestValue == CHOOSE v \in PlottedValues : \A w \in PlottedValues : v <= w
HighestValue == CHOOSE v \in PlottedValues : \A w \in PlottedValues : w <= v
Plotted == lineChart.rendered /\ ~lineChart.placeholder

C11_SymmetricPadding ==
  Plotted =>
    /\ lineChart.chartMin = Rat(10 * LowestValue - (HighestValue - LowestValue), 10)
    /\ lineChart.chartMax = Rat(10 * HighestValue + (HighestValue - LowestValue), 10)

(***************************************************************************)
(* C12.  Line chart y mapping is inverted: of two values v1 < v2 plotted   *)
(* in the same chart, v2 has the strictly smaller y, so the maximum value  *)
(* has the smallest y of all plotted points.                               *)
(***************************************************************************)
PlottedPoints ==
  UNION {{lineChart.points[k][i] : i \in 1..Len(lineChart.points[k])} :
           k \in 1..Len(lineChart.points)}

C12_YInverted ==
  Plotted =>
    \A p, q \in PlottedPoints :
      /\ p.value < q.value => JsLess(q.y, p.y)
      /\ q.value = HighestValue => ~JsLess(p.y, q.y)

(***************************************************************************)
(* C13.  Bubble radius uses square-root scaling: for a batch with          *)
(* max > min the radius of a point is 8 + 24 * sqrt((value - min) /        *)
(* (max - min)), so the minimum gets 8, the maximum 32, ((radius - 8) /    *)
(* 24)^2 is linear in value and the radius is strictly increasing in       *)
(* value; when max = min (a single point included) every radius is 20.     *)
(***************************************************************************)
BatchValues == {bubbleProps.data[i].value : i \in 1..Len(bubbleProps.data)}
BatchMin == CHOOSE v \in BatchValues : \A w \in BatchValues : v <= w
BatchMax == CHOOSE v \in BatchValues : \A w \in BatchValues : w <= v
MapDrawn == bubbleView.renders > 0 /\ ~bubbleView.placeholder
Bubbles == {bubbleView.drawn[i] : i \in 1..Len(bubbleView.drawn)}

\* ((radius - 8) / 24)^2 of a bubble
SquaredFraction(size) == size.root.sq
\* the bubble's size is the number r: r = 8 + 24 * root, root >= 0
RadiusIs(size, r) ==
  /\ size.base = Num(8) /\ size.scale = Num(24)
  /\ r >= 8 /\ size.root.sq = Rat((r - 8) * (r - 8), 24 * 24)
\* size s is a smaller number than size t
SizeLess(s, t) == s.base = t.base /\ s.scale = t.scale /\ JsLess(s.root.sq, t.root.sq)

C13_SqrtScaling ==
  MapDrawn =>
    /\ Len(bubbleView.drawn) = Len(bubbleProps.data)
    /\ \A p \in Bubbles :
         /\ p.size.base = Num(8) /\ p.size.scale = Num(24)
         /\ IF BatchMax > BatchMin
              THEN /\ SquaredFraction(p.size) =
                        Rat(p.value - BatchMin, BatchMax - BatchMin)
                   /\ p.value = BatchMin => RadiusIs(p.size, 8)
                   /\ p.value = BatchMax => RadiusIs(p.size, 32)
                   /\ \A q \in Bubbles : p.value < q.value => SizeLess(p.size, q.size)
              ELSE RadiusIs(p.size, 20)

\* the batch 0, 10, 40: 10 is a quarter of the way up and gets radius 20, not 14
C13_Witness ==
  /\ MapDrawn
  /\ BatchValues = {0, 10, 40}
  /\ \E p, q, r \in Bubbles :
       /\ p.value = 0 /\ RadiusIs(p.size, 8)
       /\ q.value = 10 /\ RadiusIs(q.size, 20)
       /\ r.value = 40 /\ RadiusIs(r.size, 32)

(***************************************************************************)
(* C14.  Bubble draw order: on every render of the map for a data batch,   *)
(* re-renders after the table sorted the memoized array in place           *)
(* included, the bubbles are drawn in non-increasing order of radius.      *)
(***************************************************************************)
C14_DrawnLargestFirst ==
  MapDrawn =>
    \A i, j \in 1..Len(bubbleView.drawn) :
      i < j => ~SizeLess(bubbleView.drawn[i].size, bubbleView.drawn[j].size)

\* a second render of a batch handed over smallest first: its circles come from
\* the array the first render's table sorted
C14_Witness ==
  /\ MapDrawn /\ bubbleView.renders = 2
  /\ Len(bubbleProps.data) = 3
  /\ bubbleProps.data[1].value < bubbleProps.data[2].value
  /\ bubbleProps.data[2].value < bubbleProps.data[3].value
  /\ SizeLess(bubbleView.drawn[3].size, bubbleView.drawn[2].size)
  /\ SizeLess(bubbleView.drawn[2].size, bubbleView.drawn[1].size)

(***************************************************************************)
(* C15.  The companion table of the bubble map lists every input point     *)
(* exactly once, in non-increasing order of primary value, for every       *)
(* non-empty batch.                                                        *)
(***************************************************************************)
\* how many entries of seq are the point d
Occurrences(seq, d) ==
  Cardinality({i \in 1..Len(seq) :
                 /\ seq[i].region = d.region /\ seq[i].country = d.country
                 /\ seq[i].value = d.value})

C15_TableRanked ==
  (bubbleView.renders > 0 /\ Len(bubbleProps.data) > 0) =>
    /\ ~bubbleView.placeholder
    /\ Len(bubbleView.table) = Len(bubbleProps.data)
    /\ \A k \in 1..Len(bubbleProps.data) :
         Occurrences(bubbleView.table, bubbleProps.data[k]) =
           Occurrences(bubbleProps.data, bubbleProps.data[k])
    /\ \A i, j \in 1..Len(bubbleView.table) :
         i < j => bubbleView.table[i].value >= bubbleView.table[j].value

C15_Witness ==
  /\ bubbleView.renders > 0
  /\ Len(bubbleProps.data) = 3
  /\ bubbleProps.data[1].value = 10 /\ bubbleProps.data[2].value = 90
  /\ bubbleProps.data[3].value = 40
  /\ bubbleView.table[1].value = 90 /\ bubbleView.table[2].value = 40
  /\ bubbleView.table[3].value = 10

(***************************************************************************)
(* C16.  Fetch lifecycle of a view: it starts in the loading state and     *)
(* stays there until the fetch settles; when the fetch settles it leaves   *)
(* loading in the same step, populated (snapshot stored, no error) if the  *)
(* fetch succeeded, in the error state (error string stored, no snapshot)  *)
(* if it failed; if the fetch eventually settles, loading eventually       *)
(* becomes false.                                                          *)
(***************************************************************************)
Settled == fetchState = "settled"
FetchFailed == Settled /\ fetched.rejection # <<>>
FetchSucceeded == Settled /\ fetched.rejection = <<>>
Populated == marketingData.ref # 0 /\ marketingData = fetched.data /\ ~error.set
ErrorState == error.set /\ marketingData = NullData

C16_FetchLifecycle ==
  /\ (loading = TRUE /\ ~Settled)
  /\ [](~Settled => (loading /\ marketingData = NullData /\ ~error.set))
  /\ [][(~Settled /\ Settled') =>
          /\ ~loading'
          /\ FetchSucceeded' => Populated'
          /\ FetchFailed' => ErrorState']_vars
  /\ [](Settled => ~loading)
  /\ (<>Settled => <>(~loading))

\* a view that was populated and has rendered its page
C16_Witness ==
  /\ FetchSucceeded /\ ~loading /\ Populated
  /\ Len(marketingData.campaigns) = 2
  /\ screen.kind = "page" /\ screen.content

(***************************************************************************)
(* C17.  When the fetch fails, the stored error is the thrown Error's      *)
(* message (the fixed string "Failed to load data" for a rejection that is *)
(* not an Error), no aggregation over campaigns is performed (every        *)
(* aggregate is its empty default), and the view renders the error banner  *)
(* and none of the metric cards, charts or tables.                         *)
(***************************************************************************)
AggregatesDefault ==
  /\ demographicData = DefaultDemographicData
  /\ deviceData = DefaultDeviceData
  /\ weeklyData = <<>> /\ weeklySummary = DefaultWeeklySummary
  /\ regionalData = <<>> /\ regionalSummary = DefaultRegionalSummary
  /\ heap = <<>>

C17_FetchFailure ==
  FetchFailed =>
    /\ error.set
    /\ error.text = IF fetched.rejection[1].isError THEN fetched.rejection[1].message
                    ELSE "Failed to load data"
    /\ marketingData = NullData
    /\ AggregatesDefault
    /\ ~threw
    /\ screen.kind = "page" => (screen.banner /\ ~screen.content)

\* the page rendered after a rejection with a value that is not an Error
C17_Witness ==
  /\ FetchFailed /\ ~fetched.rejection[1].isError
  /\ error.text = "Failed to load data"
  /\ screen.kind = "page" /\ screen.banner

(***************************************************************************)
(* C18.  A view calls fetchMarketingData exactly once per mount: no        *)
(* re-render, state change or fetch failure triggers a second call, so     *)
(* after a failure the view remains in the error state forever.            *)
(***************************************************************************)
C18_FetchedOnce ==
  /\ [](fetchCalls <= 1 /\ (fetchState # "idle" => fetchCalls = 1))
  /\ [][fetchCalls' # fetchCalls => (fetchCalls = 0 /\ fetchState = "idle")]_vars
  /\ [][FetchFailed =>
          /\ FetchFailed' /\ ErrorState /\ ErrorState'
          /\ error' = error /\ ~loading' /\ fetchCalls' = fetchCalls]_vars

\* a failed view re-rendered: still one call, still the error
C18_Witness ==
  /\ FetchFailed /\ ErrorState /\ fetchCalls = 1
  /\ screen.kind = "page" /\ screen.banner
  /\ error.text = "HTTP error! status: 500"

(***************************************************************************)
(* C19.  A demographic slice whose gender is neither "Male" nor "Female"   *)
(* adds nothing to the male or female clicks, spend and revenue nor to     *)
(* either per-gender performance sequence, but its allocated spend and     *)
(* revenue are still added to ageGroupSpend and ageGroupRevenue under its  *)
(* age_group; processing it raises no error.                               *)
(***************************************************************************)
IsGendered(a) == fetched.heap[a].gender \in {"Male", "Female"}
OtherSlots(label) == {s \in AgeSlots(label) : ~IsGendered(s[2])}

\* the fetched snapshot with the slices of any other gender taken out
WithoutOtherGenders ==
  [fetched.data EXCEPT
     !.campaigns =
        [c \in 1..Len(fetched.data.campaigns) |->
           [fetched.data.campaigns[c] EXCEPT
              !.demographic_breakdown.items = SelectSeq(@, IsGendered)]]]

\* the value of an age-group dictionary at a label, 0 where the label is absent
ValueAt(obj, label) == IF label \in DOMAIN obj THEN obj[label] ELSE Zero

C19_OtherGenderSlices ==
  (view = "demographic" /\ fetchState = "settled" /\ marketingData.ref = 1 /\ memoDep = 1) =>
    LET without == ComputeDemographicData(WithoutOtherGenders, fetched.heap).out
    IN  /\ ~threw
        /\ demographicData.maleClicks = without.maleClicks
        /\ demographicData.maleSpend = without.maleSpend
        /\ demographicData.maleRevenue = without.maleRevenue
        /\ demographicData.femaleClicks = without.femaleClicks
        /\ demographicData.femaleSpend = without.femaleSpend
        /\ demographicData.femaleRevenue = without.femaleRevenue
        /\ demographicData.maleAgeGroupPerformance = without.maleAgeGroupPerformance
        /\ demographicData.femaleAgeGroupPerformance = without.femaleAgeGroupPerformance
        /\ \A label \in {Input(s[2]).age_group : s \in InputSlots} :
             OtherSlots(label) # {} =>
               /\ label \in DOMAIN demographicData.ageGroupSpend
               /\ label \in DOMAIN demographicData.ageGroupRevenue
               /\ demographicData.ageGroupSpend[label] =
                    JsAdd(ValueAt(without.ageGroupSpend, label),
                          Rat(AllocatedTimes100(OtherSlots(label), "spend"), 100))
               /\ demographicData.ageGroupRevenue[label] =
                    JsAdd(ValueAt(without.ageGroupRevenue, label),
                          Rat(AllocatedTimes100(OtherSlots(label), "revenue"), 100))

(***************************************************************************)
(* C20.  Device rollup percentage_of_traffic: each bucket's value is its   *)
(* impressions / (Mobile impressions + Desktop impressions) * 100; when    *)
(* the combined impressions are positive the two percentages sum to 100,   *)
(* and when they are 0 both percentages are 0.                             *)
(***************************************************************************)
CombinedImpressions ==
  Total(DeviceAddrs("Mobile"), "impressions") + Total(DeviceAddrs("Desktop"), "impressions")

C20_TrafficPercentage ==
  (view = "device" /\ Aggregated) =>
    /\ \A d \in {"Mobile", "Desktop"} :
         Bucket(d).percentage_of_traffic =
           IF CombinedImpressions > 0
             THEN Rat(100 * Total(DeviceAddrs(d), "impressions"), CombinedImpressions)
             ELSE Zero
    /\ CombinedImpressions > 0 =>
         JsAdd(deviceData.mobileData.percentage_of_traffic,
               deviceData.desktopData.percentage_of_traffic) = Num(100)
    /\ CombinedImpressions = 0 =>
         /\ deviceData.mobileData.percentage_of_traffic = Zero
         /\ deviceData.desktopData.percentage_of_traffic = Zero

\* Mobile 300, Desktop 100 and a Tablet record: 75 and 25
C20_Witness ==
  /\ view = "device" /\ Aggregated
  /\ \E a \in InputAddrs : Input(a).device = "Tablet"
  /\ deviceData.mobileData.percentage_of_traffic = Num(75)
  /\ deviceData.desktopData.percentage_of_traffic = Num(25)

(***************************************************************************)
(* C21.  Device flat breakdown: the per-(campaign, device) sequence holds  *)
(* exactly one record per device_performance record of every campaign, in  *)
(* encounter order, records of a device other than Mobile and Desktop      *)
(* (which enter no bucket) included; each carries the input's              *)
(* impressions, clicks, conversions, spend, revenue, ctr and               *)
(* conversion_rate unchanged and a roas of revenue / spend, 0 when spend   *)
(* is 0.                                                                   *)
(***************************************************************************)
C21_DeviceFlatBreakdown ==
  (view = "device" /\ Aggregated) =>
    /\ Len(deviceData.campaignDeviceBreakdown) = Len(Encounter)
    /\ \A i \in 1..Len(Encounter) :
         LET row == deviceData.campaignDeviceBreakdown[i]
             rec == Input(Encounter[i])
         IN  /\ row.device = rec.device
             /\ \E s \in InputSlots :
                  s[2] = Encounter[i] /\ row.campaign = fetched.data.campaigns[s[1]].name
             /\ row.impressions = rec.impressions /\ row.clicks = rec.clicks
             /\ row.conversions = rec.conversions
             /\ row.spend = rec.spend /\ row.revenue = rec.revenue
             /\ row.ctr = rec.ctr /\ row.conversion_rate = rec.conversion_rate
             /\ row.roas = IF rec.spend = 0 THEN Zero ELSE Rat(rec.revenue, rec.spend)
    /\ \A d \in {"Mobile", "Desktop"} :
         Bucket(d).impressions = Total(DeviceAddrs(d), "impressions")

\* a Tablet record between a Mobile one with no spend and a Desktop one
C21_Witness ==
  /\ view = "device" /\ Aggregated
  /\ Len(deviceData.campaignDeviceBreakdown) = 3
  /\ deviceData.campaignDeviceBreakdown[1].device = "Mobile"
  /\ deviceData.campaignDeviceBreakdown[1].spend = 0
  /\ deviceData.campaignDeviceBreakdown[1].roas = Zero
  /\ deviceData.campaignDeviceBreakdown[2].device = "Tablet"
  /\ deviceData.campaignDeviceBreakdown[2].roas = Num(3)
  /\ deviceData.campaignDeviceBreakdown[3].device = "Desktop"
  /\ deviceData.campaignDeviceBreakdown[3].roas = Num(2)

(***************************************************************************)
(* C22.  Line chart degenerate domain: whenever every value of every       *)
(* series is the same number (a single point included), every point is     *)
(* placed at the vertical centre chartHeight / 2 and nothing is divided by *)
(* zero, whether the common value is positive, zero or negative.           *)
(***************************************************************************)
C22_DegenerateCentred ==
  (Plotted /\ LowestValue = HighestValue) =>
    \A p \in PlottedPoints :
      /\ IsFinite(p.y) /\ IsFinite(p.x)
      /\ p.y = Rat(lineProps.height - 80, 2)

(***************************************************************************)
(* C23.  Line chart x mapping: with series that all share one label        *)
(* sequence of length n, the point at index i is placed at                 *)
(* x = i / (n - 1) * 100 when n >= 2 (the first at 0, the last at 100,     *)
(* evenly spaced, strictly increasing in i) and at x = 50 when n = 1;      *)
(* every x lies in [0, 100].                                               *)
(***************************************************************************)
LabelCount == Len(lineProps.series[1].data)
SharedLabels ==
  \A k \in 1..Len(lineProps.series) : Len(lineProps.series[k].data) = LabelCount

C23_XMapping ==
  (Plotted /\ SharedLabels) =>
    \A k \in 1..Len(lineChart.points) :
      \A i \in 1..LabelCount :
        LET x == lineChart.points[k][i].x
        IN  /\ IsFinite(x)
            /\ ~JsLess(x, Zero) /\ ~JsLess(Num(100), x)
            /\ LabelCount = 1 => x = Num(50)
            /\ LabelCount >= 2 =>
                 /\ x = Rat(100 * (i - 1), LabelCount - 1)
                 /\ i = 1 => x = Zero
                 /\ i = LabelCount => x = Num(100)
                 /\ i > 1 => JsLess(lineChart.points[k][i - 1].x, x)
                 /\ i > 2 => JsSub(x, lineChart.points[k][i - 1].x) =
                               JsSub(lineChart.points[k][i - 1].x,
                                     lineChart.points[k][i - 2].x)

\* three points: 0, 50, 100
C23_Witness ==
  /\ Plotted /\ SharedLabels /\ LabelCount = 3
  /\ lineChart.points[1][1].x = Zero
  /\ lineChart.points[1][2].x = Num(50)
  /\ lineChart.points[1][3].x = Num(100)

(***************************************************************************)
(* C24.  Line chart empty input: when the series list is missing or empty, *)
(* or every series has an empty data sequence, the chart renders the       *)
(* "No data available" placeholder and computes no min/max or coordinates; *)
(* when at least one series has a point, the plot is rendered.             *)
(***************************************************************************)
C24_EmptyInput ==
  lineChart.rendered =>
    /\ PlottedValues = {} =>
         /\ lineChart.placeholder
         /\ DOMAIN lineChart = {"rendered", "placeholder"}
    /\ PlottedValues # {} =>
         /\ ~lineChart.placeholder
         /\ {"chartMin", "chartMax", "points"} \subseteq DOMAIN lineChart
         /\ \A k \in 1..Len(lineProps.series) :
              Len(lineChart.points[k]) = Len(lineProps.series[k].data)

\* two series, both without a point: the placeholder
C24_Witness ==
  /\ lineChart.rendered /\ lineChart.placeholder
  /\ lineProps.given /\ Len(lineProps.series) = 2

\* the series prop is missing: the placeholder
C24_WitnessMissing ==
  lineChart.rendered /\ lineChart.placeholder /\ ~lineProps.given

\* one empty series beside one with a point: the plot
C24_WitnessPlot ==
  /\ Plotted /\ Len(lineProps.series) = 2
  /\ Len(lineProps.series[1].data) = 0

(***************************************************************************)
(* C25.  Bubble placement: a point whose region is one of the eight        *)
(* regions of the static coordinate table is placed at that region's       *)
(* fixed coordinates, and a point whose region is absent from the table    *)
(* is placed at the coordinates of Dubai (62, 58); no region name makes    *)
(* the computation fail.                                                   *)
(***************************************************************************)
TableRegions ==
  {"Dubai", "Abu Dhabi", "Sharjah", "Ajman", "Ras Al Khaimah", "Fujairah",
   "Umm Al Quwain", "Al Ain"}

PlacedAt(p, x, y) == p.x = Num(x) /\ p.y = Num(y)

C25_Placement ==
  MapDrawn =>
    /\ Len(bubbleView.drawn) = Len(bubbleProps.data)
    /\ \A p \in Bubbles :
         /\ p.region \in TableRegions =>
              PlacedAt(p, UAE_COORDINATES[p.region].x, UAE_COORDINATES[p.region].y)
         /\ p.region \notin TableRegions => PlacedAt(p, 62, 58)

\* the same, for every region name that is not a member inherited by the table
C25_PlacementOwnNames ==
  MapDrawn =>
    \A p \in Bubbles :
      /\ p.region \in TableRegions =>
           PlacedAt(p, UAE_COORDINATES[p.region].x, UAE_COORDINATES[p.region].y)
      /\ p.region = "Riyadh" => PlacedAt(p, 62, 58)

(***************************************************************************)
(* C26.  Memoization: across any sequence of re-renders of a view, each    *)
(* aggregate (demographic, device, weekly, regional) is recomputed only on *)
(* a render where the marketingData reference differs from the one of the  *)
(* previous render; renders with an unchanged reference reuse the          *)
(* previously computed aggregate object.                                   *)
(***************************************************************************)
\* the aggregate objects of the four views, the accumulator records included
AggregateObjects ==
  [demographic |-> demographicData, device |-> deviceData,
   weekly |-> [i \in 1..Len(weeklyData) |-> <<weeklyData[i], heap[weeklyData[i]]>>],
   weeklySummary |-> weeklySummary,
   regional |-> [i \in 1..Len(regionalData) |-> <<regionalData[i], heap[regionalData[i]]>>],
   regionalSummary |-> regionalSummary]

C26_Memoized ==
  /\ [][memoRuns' # memoRuns =>
          (marketingData.ref # renderedRef /\ memoRuns' = memoRuns + 1)]_vars
  /\ [][memoRuns' = memoRuns => AggregateObjects' = AggregateObjects]_vars
  /\ [](memoRuns <= 2)

\* the snapshot arrived and a render recomputed the aggregates, once
C26_Witness ==
  /\ Aggregated /\ Populated
  /\ memoRuns = 2 /\ renderedRef = 1 /\ screen.content

\* a re-render with the reference unchanged (the fetch failed): the banner is
\* shown and nothing was recomputed
C26_WitnessReuse ==
  /\ ErrorState /\ screen.banner
  /\ memoRuns = 1 /\ renderedRef = 0

(***************************************************************************)
(* C27.  Conservation of totals: the weekly summary's totalRevenue,        *)
(* totalSpend, totalConversions and totalClicks equal the sums of those    *)
(* fields over every weekly_performance record of every campaign, and the  *)
(* regional summary's totalRevenue and totalSpend equal the sums over      *)
(* every regional_performance record of every campaign; merging records    *)
(* under a shared key neither drops nor double-counts any record.          *)
(***************************************************************************)
C27_TotalsConserved ==
  /\ (view = "weekly" /\ Aggregated) =>
       /\ weeklySummary.totalRevenue = Total(InputAddrs, "revenue")
       /\ weeklySummary.totalSpend = Total(InputAddrs, "spend")
       /\ weeklySummary.totalConversions = Total(InputAddrs, "conversions")
       /\ weeklySummary.totalClicks = Total(InputAddrs, "clicks")
  /\ (view = "region" /\ Aggregated) =>
       /\ regionalSummary.totalRevenue = Total(InputAddrs, "revenue")
       /\ regionalSummary.totalSpend = Total(InputAddrs, "spend")

\* three weekly records, two of them merged under one week: 100 + 30 + 10
C27_Witness ==
  /\ view = "weekly" /\ Aggregated
  /\ Cardinality(InputAddrs) = 3 /\ Len(weeklyData) = 2
  /\ weeklySummary.totalRevenue = 140

\* two Dubai records and one Sharjah record: 200 + 50 + 250
C27_WitnessRegional ==
  /\ view = "region" /\ Aggregated
  /\ Cardinality(InputAddrs) = 3 /\ Len(regionalData) = 2
  /\ regionalSummary.totalRevenue = 500

(***************************************************************************)
(* C28.  Regional rollup is insensitive to campaign order for numbers:     *)
(* for any permutation of the campaigns (and of the records inside them),  *)
(* every region's summed impressions, clicks, conversions, spend and       *)
(* revenue are the same, and for regions with two or more records the      *)
(* ctr, conversion_rate, cpc, cpa and roas are the same; only the          *)
(* seed-derived fields (such as country) may depend on which record came   *)
(* first.                                                                  *)
(***************************************************************************)
IndexPermutations(n) ==
  {f \in [1..n -> 1..n] : \A i, j \in 1..n : f[i] = f[j] => i = j}

\* campaign with the records of its regional_performance in every order
RecordOrders(campaign) ==
  LET items == campaign.regional_performance.items
  IN  {[campaign EXCEPT !.regional_performance.items =
          [i \in 1..Len(items) |-> items[f[i]]]] : f \in IndexPermutations(Len(items))}

RECURSIVE RecordsReordered(_)
RecordsReordered(campaigns) ==
  IF campaigns = <<>> THEN {<<>>}
  ELSE {<<c>> \o rest : c \in RecordOrders(Head(campaigns)),
                        rest \in RecordsReordered(Tail(campaigns))}

\* every snapshot that lists the campaigns of the fetched one, and the records
\* inside them, in another order
PermutedSnapshots ==
  {[fetched.data EXCEPT !.campaigns = [c \in 1..Len(cs) |-> cs[f[c]]]] :
     cs \in RecordsReordered(fetched.data.campaigns),
     f \in IndexPermutations(Len(fetched.data.campaigns))}

\* the regional rollup of snapshot d
RollupOf(d) ==
  LET r == ComputeRegionalData(d, fetched.heap) IN Deref(r.heap, r.out)

RowOf(rows, k) == rows[CHOOSE i \in 1..Len(rows) : rows[i].region = k]

SameNumbers(rows, other) ==
  /\ {rows[i].region : i \in 1..Len(rows)} = {other[i].region : i \in 1..Len(other)}
  /\ Len(rows) = Len(other)
  /\ \A i \in 1..Len(rows) :
       LET e == rows[i]
           o == RowOf(other, e.region)
       IN  /\ e.impressions = o.impressions /\ e.clicks = o.clicks
           /\ e.conversions = o.conversions
           /\ e.spend = o.spend /\ e.revenue = o.revenue
           /\ Cardinality(RegionAddrs(e.region)) >= 2 =>
                /\ e.ctr = o.ctr /\ e.conversion_rate = o.conversion_rate
                /\ e.cpc = o.cpc /\ e.cpa = o.cpa /\ e.roas = o.roas

C28_OrderInsensitive ==
  (view = "region" /\ Aggregated) =>
    \A d \in PermutedSnapshots : SameNumbers(RegionalRows, RollupOf(d))

\* two campaigns, the Dubai records with different countries and rates in both,
\* so that swapping the campaigns changes the seed of the region
C28_Witness ==
  /\ view = "region" /\ Aggregated
  /\ Len(fetched.data.campaigns) = 2
  /\ \E a, b \in InputAddrs :
       /\ Input(a).region = "Dubai" /\ Input(b).region = "Dubai"
       /\ Input(a).country # Input(b).country
       /\ <<1, a>> \in InputSlots /\ <<2, b>> \in InputSlots
  /\ \E d \in PermutedSnapshots :
       RowOf(RollupOf(d), "Dubai").country # RowOf(RegionalRows, "Dubai").country

(***************************************************************************)
(* C29.  A region reported by exactly one regional_performance record      *)
(* appears in the regional rollup with that record's pre-computed ctr,     *)
(* conversion_rate, cpc, cpa and roas copied unchanged (they are not       *)
(* recomputed from, or checked against, its raw counts); recomputation     *)
(* happens only on the second and later records of a region.               *)
(***************************************************************************)
C29_SingleRecordCopied ==
  (view = "region" /\ Aggregated) =>
    \A a \in InputAddrs :
      LET k == Input(a).region
          e == RowOf(RegionalRows, k)
      IN  /\ \E i \in 1..Len(RegionalRows) : RegionalRows[i].region = k
          /\ RegionAddrs(k) = {a} =>
               /\ e = Input(a)
               /\ e.ctr = Input(a).ctr
               /\ e.conversion_rate = Input(a).conversion_rate
               /\ e.cpc = Input(a).cpc /\ e.cpa = Input(a).cpa
               /\ e.roas = Input(a).roas
          /\ (Cardinality(RegionAddrs(k)) >= 2 /\ Total(RegionAddrs(k), "spend") > 0) =>
               e.roas = Rat(Total(RegionAddrs(k), "revenue"),
                            Total(RegionAddrs(k), "spend"))

\* the one Sharjah record says ctr 1 and roas 9 where its counts give 50 and 25/2;
\* the rollup says 1 and 9
C29_Witness ==
  /\ view = "region" /\ Aggregated
  /\ \E a \in InputAddrs :
       /\ Input(a).region = "Sharjah" /\ RegionAddrs("Sharjah") = {a}
       /\ Input(a).ctr # Rat(100 * Input(a).clicks, Input(a).impressions)
       /\ RowOf(RegionalRows, "Sharjah").ctr = Num(1)
       /\ RowOf(RegionalRows, "Sharjah").roas = Num(9)
  /\ Cardinality(InputAddrs) >= 2

(***************************************************************************)
(* C30.  Fetch state invariant of every view: in every reachable state the *)
(* stored snapshot and the stored error are never both non-null, the       *)
(* snapshot and error are both null while loading is true, and once        *)
(* loading has become false it never becomes true again.                   *)
(***************************************************************************)
C30_FetchStateInvariant ==
  /\ [](~(marketingData # NullData /\ error.set))
  /\ [](loading => (marketingData = NullData /\ ~error.set))
  /\ [][~loading => ~loading']_vars

\* the snapshot is stored, loading is over, and the page was rendered with it
C30_Witness ==
  /\ FetchSucceeded /\ Populated /\ ~loading
  /\ renderedRef = 1 /\ screen.content

\* the fetch failed, loading is over, and the page was rendered with the banner
C30_WitnessFailed ==
  /\ FetchFailed /\ ErrorState /\ ~loading /\ screen.banner

====
